---- MODULE Spec2Model ----
(***************************************************************************)
(* Model of the generate -> execute -> review -> prune cycle of            *)
(* GODCodeAgentOllama.recursive_build (apexai_core/agents/god_code_agent)   *)
(* and of AsyncAgent.recursive_build_async (apexai_core/agents/async_agent).*)
(*                                                                         *)
(* Source texts (model output, generated code, file contents) are          *)
(* sequences of one-character strings.  Process output (stdout, stderr,    *)
(* exception messages) is a sequence of lexical tokens.  The character     *)
(* U+0060 cannot occur in a TLA+ string and is written "<backtick>".       *)
(***************************************************************************)
EXTENDS Naturals, Integers, Sequences, FiniteSets, TLC

(***************************************************************************)
(* Bounds of the model                                                     *)
(***************************************************************************)
\* largest value of max_cycles an agent is constructed with
MaxCycles == 3

(***************************************************************************)
(* Text primitives (str methods used by the agents)                        *)
(***************************************************************************)
Whitespace == {" ", "\n", "\t"}

Digits == {"0", "1", "2", "3", "4", "5", "6", "7", "8", "9"}

\* str.startswith(p)
StartsWith(s, p) ==
    /\ Len(p) <= Len(s)
    /\ SubSeq(s, 1, Len(p)) = p

\* p in s
Contains(s, p) ==
    \E i \in 0..(Len(s) - Len(p)) : SubSeq(s, i + 1, i + Len(p)) = p

\* a text: a sequence of characters
Text == Seq(STRING)

\* s.replace(tok, ""), for a non-empty tok
StrReplace[s \in Text, tok \in Text] ==
    IF s = <<>> THEN <<>>
    ELSE IF StartsWith(s, tok)
         THEN StrReplace[SubSeq(s, Len(tok) + 1, Len(s)), tok]
         ELSE <<Head(s)>> \o StrReplace[Tail(s), tok]

\* str.lstrip()
LStrip[s \in Text] ==
    IF s # <<>> /\ Head(s) \in Whitespace THEN LStrip[Tail(s)] ELSE s

\* str.rstrip()
RStrip[s \in Text] ==
    IF s # <<>> /\ s[Len(s)] \in Whitespace
    THEN RStrip[SubSeq(s, 1, Len(s) - 1)]
    ELSE s

\* str.strip()
Strip(s) == RStrip[LStrip[s]]

\* position of the first line break of s, 0 when there is none
FirstNewline(s) ==
    IF \E i \in 1..Len(s) : s[i] = "\n"
    THEN CHOOSE i \in 1..Len(s) :
             /\ s[i] = "\n"
             /\ \A j \in 1..(i - 1) : s[j] # "\n"
    ELSE 0

\* str.splitlines()
SplitLines[s \in Text] ==
    IF s = <<>> THEN <<>>
    ELSE IF FirstNewline(s) = 0 THEN <<s>>
         ELSE <<SubSeq(s, 1, FirstNewline(s) - 1)>>
                  \o SplitLines[SubSeq(s, FirstNewline(s) + 1, Len(s))]

\* "\n".join(lines)
JoinLines[lines \in Seq(Text)] ==
    IF lines = <<>> THEN <<>>
    ELSE IF Len(lines) = 1 THEN lines[1]
         ELSE lines[1] \o <<"\n">> \o JoinLines[Tail(lines)]

LowerChar(c) ==
    CASE c = "A" -> "a" [] c = "B" -> "b" [] c = "C" -> "c" [] c = "D" -> "d"
      [] c = "E" -> "e" [] c = "F" -> "f" [] c = "G" -> "g" [] c = "H" -> "h"
      [] c = "I" -> "i" [] c = "J" -> "j" [] c = "K" -> "k" [] c = "L" -> "l"
      [] c = "M" -> "m" [] c = "N" -> "n" [] c = "O" -> "o" [] c = "P" -> "p"
      [] c = "Q" -> "q" [] c = "R" -> "r" [] c = "S" -> "s" [] c = "T" -> "t"
      [] c = "U" -> "u" [] c = "V" -> "v" [] c = "W" -> "w" [] c = "X" -> "x"
      [] c = "Y" -> "y" [] c = "Z" -> "z" [] OTHER -> c

\* str.lower()
Lower(s) == [i \in 1..Len(s) |-> LowerChar(s[i])]

\* str.isdigit()
IsDigit(s) == s # <<>> /\ \A i \in 1..Len(s) : s[i] \in Digits

(***************************************************************************)
(* Literals of the agents                                                  *)
(***************************************************************************)
bad_tokens ==
    << <<"<backtick>", "<backtick>", "<backtick>", "p", "y", "t", "h", "o", "n">>,
       <<"<backtick>", "<backtick>", "<backtick>">>,
       <<"[", "P", "Y", "T", "H", "O", "N", "]">>,
       <<"[", "/", "P", "Y", "T", "H", "O", "N", "]">>,
       <<".", ".", ".">> >>

allowed_starts ==
    << <<"i", "m", "p", "o", "r", "t", " ">>,
       <<"f", "r", "o", "m", " ">>,
       <<"d", "e", "f", " ">>,
       <<"c", "l", "a", "s", "s", " ">>,
       <<"@">>,
       <<"p", "r", "i", "n", "t", "(">>,
       <<"i", "f", " ">>,
       <<"f", "o", "r", " ">>,
       <<"w", "h", "i", "l", "e", " ">>,
       <<"w", "i", "t", "h", " ">>,
       <<"t", "r", "y", ":">>,
       <<"e", "x", "c", "e", "p", "t", " ">>,
       <<"r", "e", "t", "u", "r", "n", " ">>,
       <<"a", "s", "y", "n", "c", " ">>,
       <<"#">>,
       <<"e", "l", "s", "e", ":">>,
       <<"e", "l", "i", "f", " ">>,
       <<"a", "p", "p", ".">>,
       <<"o", "u", "t", "p", "u", "t">>,
       <<"r", "e", "s", "u", "l", "t">>,
       <<"i", "n", "p", "u", "t">>,
       <<"p", "a", "s", "s">>,
       <<"r", "a", "i", "s", "e", " ">>,
       <<"y", "i", "e", "l", "d", " ">>,
       <<"g", "l", "o", "b", "a", "l", " ">>,
       <<"n", "o", "n", "l", "o", "c", "a", "l", " ">>,
       <<"a", "s", "s", "e", "r", "t", " ">>,
       <<"l", "a", "m", "b", "d", "a", " ">>,
       <<"o", "p", "e", "n", "(">>,
       <<"s", "u", "b", "p", "r", "o", "c", "e", "s", "s">>,
       <<"B", "a", "s", "e", "M", "o", "d", "e", "l">>,
       <<"o", "s", ".">>,
       <<"s", "y", "s", ".">>,
       <<"m", "a", "i", "n">>,
       <<>> >>

banned_phrases ==
    << <<"T", "h", "i", "s", " ", "s", "c", "r", "i", "p", "t">>,
       <<"T", "o", " ", "t", "e", "s", "t">>,
       <<"c", "u", "r", "l">>,
       <<"p", "y", "t", "h", "o", "n", " ">>,
       <<"<backtick>", "<backtick>", "<backtick>">>,
       <<"N", "o", "t", "e", " ", "t", "h", "a", "t">>,
       <<"a", "l", "s", "o", " ", "n", "o", "t", "e">>,
       <<"y", "o", "u", " ", "c", "a", "n", " ", "u", "s", "e">>,
       <<"T", "h", "e", " ", "<backtick>", "/", "s", "t", "a", "t", "u", "s", "<backtick>">>,
       <<"T", "h", "e", " ", "<backtick>", "/", "e", "x", "e", "c", "u", "t", "e", "<backtick>">>,
       <<"I", "f", " ", "y", "o", "u">>,
       <<"T", "o", " ", "r", "u", "n">>,
       <<"F", "o", "r", " ", "e", "x", "a", "m", "p", "l", "e">>,
       <<"H", "e", "r", "e", " ", "i", "s">>,
       <<"T", "o", " ", "s", "t", "a", "r", "t">>,
       <<"A", "f", "t", "e", "r", " ", "r", "u", "n", "n", "i", "n", "g">> >>

fallback_sync ==
    <<"p", "r", "i", "n", "t", "(", "'", "H", "e", "l", "l", "o", " ", "w", "o", "r", "l", "d", " ", "f", "r", "o", "m", " ", "G", "O", "D", "C", "o", "d", "e", "A", "g", "e", "n", "t", "'", ")">>

fallback_async ==
    <<"p", "r", "i", "n", "t", "(", "'", "H", "e", "l", "l", "o", " ", "w", "o", "r", "l", "d", " ", "f", "r", "o", "m", " ", "A", "s", "y", "n", "c", "A", "g", "e", "n", "t", "'", ")">>

review_keywords_sync ==
    << <<"d", "e", "f", " ">>,
       <<"c", "l", "a", "s", "s", " ">>,
       <<"p", "r", "i", "n", "t", "(">>,
       <<"F", "a", "s", "t", "A", "P", "I">> >>

review_keywords_async_no_print ==
    << <<"d","e","f"," ">>, <<"c","l","a","s","s"," ">>, <<"F","a","s","t","A","P","I">> >>

review_keywords_async ==
    << <<"d", "e", "f", " ">>,
       <<"c", "l", "a", "s", "s", " ">>,
       <<"p", "r", "i", "n", "t", "(">>,
       <<"F", "a", "s", "t", "A", "P", "I">>,
       <<"a", "s", "y", "n", "c", " ", "d", "e", "f">> >>

kw_FastAPI ==
    <<"F", "a", "s", "t", "A", "P", "I">>

kw_uvicorn ==
    <<"u", "v", "i", "c", "o", "r", "n">>

kw_app_FastAPI ==
    <<"a", "p", "p", " ", "=", " ", "F", "a", "s", "t", "A", "P", "I", "(", ")">>

RawPrint ==
    <<"p", "r", "i", "n", "t", "(", "'", "h", "i", "'", ")">>

\* import os / os.system('ls'): code without any review marker
RawPlain ==
    <<"i", "m", "p", "o", "r", "t", " ", "o", "s", "\n", "o", "s", ".",
      "s", "y", "s", "t", "e", "m", "(", "'", "l", "s", "'", ")">>

RawService ==
    <<"a", "p", "p", " ", "=", " ", "F", "a", "s", "t", "A", "P", "I", "(", ")">>

RawProse ==
    <<"H", "e", "r", "e", " ", "i", "s", " ", "c", "o", "d", "e">>

(***************************************************************************)
(* Agent flavours: "sync" is GODCodeAgentOllama, "async" is AsyncAgent     *)
(***************************************************************************)
Modes == {"sync", "async"}

(***************************************************************************)
(* CodeExtractor                                                           *)
(***************************************************************************)
\* for bad_token in [...]: raw_code = raw_code.replace(bad_token, "")
StripBadTokens[s \in Text, toks \in Seq(Text)] ==
    IF toks = <<>> THEN s
    ELSE StripBadTokens[StrReplace[s, Head(toks)], Tail(toks)]

\* the condition under which a line is appended to code_lines
KeepsLine(line) ==
    LET line_strip == Strip(line)
    IN  /\ \/ \E k \in 1..Len(allowed_starts) : StartsWith(line_strip, allowed_starts[k])
           \/ line_strip = <<>>
           \/ (Len(line_strip) > 0 /\ line_strip[1] \in {"\"", "'"})
           \/ IsDigit(line_strip)
        /\ ~ \E k \in 1..Len(banned_phrases) :
                 Contains(Lower(line_strip), Lower(banned_phrases[k]))

Fallback(m) == IF m = "sync" THEN fallback_sync ELSE fallback_async

_clean_generated_code(m, raw_code) ==
    LET stripped == Strip(StripBadTokens[raw_code, bad_tokens])
        lines == SplitLines[stripped]
        code_lines == SelectSeq(lines, KeepsLine)
        code == Strip(JoinLines[code_lines])
    IN  IF code = <<>> \/ Len(code) < 10 THEN Fallback(m) ELSE code

(***************************************************************************)
(* ReviewGate                                                              *)
(***************************************************************************)
review_keywords(m) ==
    IF m = "sync" THEN review_keywords_sync ELSE review_keywords_async

\* a review that asks for every keyword
operator_review_all_markers(m, code) ==
    \A k \in 1..Len(review_keywords(m)) : Contains(code, review_keywords(m)[k])

operator_review(m, code) ==
    \E k \in 1..Len(review_keywords(m)) : Contains(code, review_keywords(m)[k])

(***************************************************************************)
(* Run-mode detection                                                      *)
(***************************************************************************)
should_run_with_uvicorn(code) ==
    /\ Contains(code, kw_FastAPI) \/ Contains(code, kw_uvicorn)
    /\ Contains(code, kw_app_FastAPI)

(***************************************************************************)
(* External outcomes the run is driven by                                  *)
(***************************************************************************)
\* texts the model service answers with
RawTexts == {RawPrint, RawPlain, RawService, RawProse}

\* what a generation request can come back with
ResponseKinds ==
    {"ok", "transport_error", "http_error", "bad_json", "missing_field",
     "unexpected", "non_string"}

Responses ==
    {[kind |-> "ok", raw |-> r] : r \in RawTexts}
        \cup {[kind |-> k, raw |-> <<>>] : k \in ResponseKinds \ {"ok"}}

\* missions and contexts a caller starts a run with
Missions == {<<"print hello">>}

Contexts == {<<"previous context">>}

MissionPrefix == "Expand, optimize, or add new required modules to complete: "

\* names matched by [\w_]+ ("foo.bar" is not one: the dot ends the match)
ModuleNames == {"foo", "bar"}

NoModuleNamed == "No module named '"

StdoutTexts == {<<"hello">>}

StderrTexts ==
    { <<"Traceback: boom">>,
      <<"ImportError", ": ", NoModuleNamed, "foo", "'">>,
      <<"ModuleNotFoundError", ": ", NoModuleNamed, "foo.bar", "'">>,
      <<"ModuleNotFoundError", ": ", NoModuleNamed, "foo", "'">>,
      <<"ModuleNotFoundError", ": ", NoModuleNamed, "foo", "'", "; ",
        "ModuleNotFoundError", ": ", NoModuleNamed, "bar", "'">>,
      <<"ModuleNotFoundError", ": ", NoModuleNamed, "foo", "'", "; ",
        "ModuleNotFoundError", ": ", NoModuleNamed, "foo", "'">> }

\* how the wait for a spawned process ends
RunOutcomes ==
    {[kind |-> "exit0", out |-> s] : s \in StdoutTexts}
        \cup {[kind |-> "nonzero", out |-> e] : e \in StderrTexts}
        \cup {[kind |-> "timeout", out |-> <<>>],
              [kind |-> "spawn_error", out |-> <<>>]}

\* how one pip install ends: exit 0, non-zero exit, any other exception
InstallOutcomes == {"ok", "failed", "error"}

\* how open(file_path, "w") followed by f.write(code) ends
WriteOutcomes == {"ok", "open_failed", "write_failed"}

\* the fixed status message of service mode (the source has U+2014 for " - ")
UvicornRunning == "Uvicorn server running - manual test at http://localhost:8000"

(***************************************************************************)
(* Filesystem under project_root: module_<n>.py for n in 1..MaxCycles+1    *)
(***************************************************************************)
FileIds == 1..(MaxCycles + 1)

NoFile == [exists |-> FALSE, content |-> <<>>]

\* a write that leaves the disk as it was
WriteFile_not_persisting(fs, n, text, outcome) == fs

\* with open(file_path, "w") as f: f.write(code)
WriteFile(fs, n, text, outcome) ==
    CASE outcome = "ok" -> [fs EXCEPT ![n] = [exists |-> TRUE, content |-> text]]
      [] outcome = "write_failed" -> [fs EXCEPT ![n] = [exists |-> TRUE, content |-> <<>>]]
      [] OTHER -> fs

\* a removal that clears every module file up to the given one
RemoveFile_upto(fs, n) == [k \in FileIds |-> IF k <= n THEN NoFile ELSE fs[k]]

\* os.remove(file_path)
RemoveFile(fs, n) == [fs EXCEPT ![n] = NoFile]

(***************************************************************************)
(* Model service                                                           *)
(***************************************************************************)
\* a response without the text field read as an empty text
GenerateRaises_default_text(m, kind) ==
    IF kind \in {"ok", "missing_field"} THEN "none"
    ELSE IF kind = "non_string" THEN "AttributeError"
    ELSE "OllamaAPIError"

\* the exception ollama_generate / ollama_generate_async ends with ("none": it returns)
GenerateRaises(m, kind) ==
    IF m = "sync"
    THEN CASE kind = "ok" -> "none"
           [] kind \in {"transport_error", "http_error", "bad_json"} -> "OllamaAPIError"
           [] kind \in {"missing_field", "unexpected"} -> "CodeGenerationError"
           [] OTHER -> "AttributeError"
    ELSE CASE kind = "ok" -> "none"
           [] kind = "transport_error" -> "OllamaAPIError"
           [] kind \in {"http_error", "bad_json", "missing_field", "unexpected"} ->
                  "CodeGenerationError"
           [] OTHER -> "AttributeError"

\* an except clause that names OllamaAPIError alone
CaughtByController_api_only(exc) == exc = "OllamaAPIError"

\* except (OllamaAPIError, CodeGenerationError) in recursive_build
CaughtByController(exc) == exc \in {"OllamaAPIError", "CodeGenerationError"}

(***************************************************************************)
(* Executor                                                                *)
(***************************************************************************)
Returned(ok, text) == [raised |-> FALSE, success |-> ok, text |-> text]

Raised(text) == [raised |-> TRUE, success |-> FALSE, text |-> text]

\* a script still running at the end of the wait taken for a running service
_execute_regular_python_timeout_ok(m, o) ==
    CASE o.kind = "timeout" -> Returned(TRUE, <<UvicornRunning>>)
      [] o.kind = "exit0" -> Returned(TRUE, o.out)
      [] OTHER -> Raised(<<"Python execution failed: ">> \o o.out)

\* subprocess.run without check=True: the exit code is not looked at
_execute_regular_python_unchecked(m, o) ==
    IF o.kind \in {"exit0", "nonzero"}
    THEN Returned(TRUE, o.out)
    ELSE Raised(<<"Python execution timed out for ", "<file_path>">>)

_execute_regular_python(m, o) ==
    IF m = "sync"
    THEN CASE o.kind = "exit0" -> Returned(TRUE, o.out)
           [] o.kind = "nonzero" -> Raised(<<"Python execution failed: ">> \o o.out)
           [] o.kind = "timeout" ->
                  Raised(<<"Python execution timed out for ", "<file_path>">>)
           [] OTHER -> Raised(<<"Unexpected error executing Python: ", "<exception>">>)
    ELSE CASE o.kind = "exit0" -> Returned(TRUE, o.out)
           [] o.kind = "nonzero" ->
                  Raised(<<"Unexpected error executing Python: ",
                           "Python execution failed: ">> \o o.out)
           [] o.kind = "timeout" ->
                  Raised(<<"Unexpected error executing Python: ",
                           "Python execution timed out for ", "<file_path>">>)
           [] OTHER -> Raised(<<"Unexpected error executing Python: ", "<exception>">>)

_execute_with_uvicorn(m, o) ==
    IF m = "sync"
    THEN CASE o.kind = "exit0" -> Returned(TRUE, o.out)
           [] o.kind = "timeout" -> Returned(TRUE, <<UvicornRunning>>)
           [] o.kind = "nonzero" -> Raised(<<"Uvicorn execution failed: ">> \o o.out)
           [] OTHER -> Raised(<<"Unexpected error running uvicorn: ", "<exception>">>)
    ELSE CASE o.kind = "exit0" -> Returned(TRUE, o.out)
           [] o.kind = "timeout" -> Returned(TRUE, <<UvicornRunning>>)
           [] o.kind = "nonzero" ->
                  Raised(<<"Unexpected error running uvicorn: ",
                           "Uvicorn execution failed: ">> \o o.out)
           [] OTHER -> Raised(<<"Unexpected error running uvicorn: ", "<exception>">>)

\* the branch of write_and_execute that picks the run mode
Execute(m, code, o) ==
    IF should_run_with_uvicorn(code)
    THEN _execute_with_uvicorn(m, o)
    ELSE _execute_regular_python(m, o)

\* "ModuleNotFoundError" in error_message
IsModuleNotFound(error_message) ==
    \E i \in 1..Len(error_message) : error_message[i] = "ModuleNotFoundError"

\* a re-run whose failure is classified like the first run's
AfterRetry_classifying(r) ==
    IF r.raised /\ IsModuleNotFound(r.text) THEN "Installing" ELSE "Reviewing"

\* the re-run returns, or its exception is caught and returned as final
AfterRetry(r) == "Reviewing"

(***************************************************************************)
(* DependencyResolver                                                      *)
(***************************************************************************)
\* positions where r"No module named '([\w_]+)'" matches
MatchAt(text, i) ==
    /\ i + 2 <= Len(text)
    /\ text[i] = NoModuleNamed
    /\ text[i + 1] \in ModuleNames
    /\ text[i + 2] = "'"

RECURSIVE FindFrom(_, _)
FindFrom(text, i) ==
    IF i > Len(text) THEN <<>>
    ELSE IF MatchAt(text, i)
         THEN <<text[i + 1]>> \o FindFrom(text, i + 3)
         ELSE FindFrom(text, i + 1)

\* re.findall(r"No module named '([\w_]+)'", error_output)
FindModules(error_output) == FindFrom(error_output, 1)

\* a loop that gives up at the first install that does not succeed
RECURSIVE InstalledFrom_aborting(_, _, _)
InstalledFrom_aborting(matches, outcomes, i) ==
    IF i > Len(matches) \/ outcomes[i] # "ok" THEN <<>>
    ELSE <<matches[i]>> \o InstalledFrom_aborting(matches, outcomes, i + 1)

RECURSIVE InstalledFrom(_, _, _)
InstalledFrom(matches, outcomes, i) ==
    IF i > Len(matches) THEN <<>>
    ELSE (IF outcomes[i] = "ok" THEN <<matches[i]>> ELSE <<>>)
             \o InstalledFrom(matches, outcomes, i + 1)

\* a resolver that reports every name it found, installed or not
auto_install_module_all_matches(error_output, outcomes) == FindModules(error_output)

\* installed_modules, given one install outcome per match
auto_install_module(error_output, outcomes) ==
    InstalledFrom(FindModules(error_output), outcomes, 1)

(***************************************************************************)
(* CycleController: decisions of recursive_build                           *)
(***************************************************************************)
\* requests a run may log before the model stops following it; a run of the
\* code as written sends at most m of them
RequestBudget(m) == m + 1

\* the guard with the limit off by one
CycleLimitReached_off_by_one(c, m) == c > m + 1

\* if cycle > self.max_cycles: return
CycleLimitReached(c, m) == c > m

\* the recursion guard stopping one cycle early
ContinueAllowed_one_early(c, m) == c + 1 < m

\* if cycle < self.max_cycles: recurse
ContinueAllowed(c, m) == c < m

\* the recursive call made with the same cycle number
NextCycle_not_incremented(c) == c

\* the recursive call skipping a cycle number
NextCycle_skipping(c) == c + 2

\* the cycle argument of the recursive call
NextCycle(c) == c + 1

\* next_mission = f"Expand, optimize, ... to complete: {mission}"
NextMission(mission) == <<MissionPrefix>> \o mission

\* the recursive call handing on the context it was given
NextContext_stale(context, output) == context

\* the recursive call made without its context argument
NextContext_omitted(context, output) == <<>>

\* the context argument of the recursive call
NextContext(context, output) == output

\* the decision taken with "or" in place of "and"
Accepted_either(m, code, success) == operator_review(m, code) \/ success

\* if self.operator_review(code, filename) and success
Accepted(m, code, success) == operator_review(m, code) /\ success

(***************************************************************************)
(* MultiModelAgent: model routing                                          *)
(***************************************************************************)
\* a key the models mapping does not hold
Missing == "<missing>"

\* an environment variable that is not set
Unset == "<unset>"

DEFAULT_OLLAMA_MODEL == "codellama:instruct"

\* the mapping used when the constructor is given none
default_models == [code |-> "codellama:instruct", general |-> "llama2"]

\* self.models = models or {...}: an empty mapping is replaced by the default
ConfiguredModels(given) ==
    IF given.code = Missing /\ given.general = Missing
    THEN default_models
    ELSE given

\* self.ollama_model = ollama_model or os.getenv("OLLAMA_MODEL", DEFAULT_OLLAMA_MODEL)
ConstructedModel(given, env) ==
    IF given # Unset THEN given
    ELSE IF env # Unset THEN env
    ELSE DEFAULT_OLLAMA_MODEL

code_keywords ==
    <<<<"c", "o", "d", "e">>,
      <<"s", "c", "r", "i", "p", "t">>,
      <<"a", "p", "i">>,
      <<"f", "u", "n", "c", "t", "i", "o", "n">>,
      <<"c", "l", "a", "s", "s">>,
      <<"d", "a", "t", "a">>,
      <<"c", "s", "v">>,
      <<"j", "s", "o", "n">>,
      <<"a", "l", "g", "o", "r", "i", "t", "h", "m">>,
      <<"p", "r", "o", "g", "r", "a", "m">>>>

\* any(word in mission_lower for word in code_keywords)
HasCodeKeyword(mission_lower) ==
    \E k \in 1..Len(code_keywords) : Contains(mission_lower, code_keywords[k])

\* the two copies of MultiModelAgent in the repository
RouterImpls == {"apexai_core.agents.multi_model_agent", "multi_model_agent"}

RouterReturned(model) == [raised |-> "none", value |-> model]

RouterRaised(exc) == [raised |-> exc, value |-> Missing]

\* a mission argument that is not a string, so that mission.lower() raises
NotAStr == <<"<not a str>">>

\* a router that looks for the keywords in the mission as it was typed
choose_model_case_sensitive(impl, ms, text) ==
    IF text = NotAStr \/ ms.general = Missing
    THEN IF impl = "multi_model_agent"
         THEN IF ms.general = Missing
              THEN RouterRaised("KeyError")
              ELSE RouterReturned(ms.general)
         ELSE RouterRaised("ModelSelectionError")
    ELSE IF HasCodeKeyword(text) /\ ms.code # Missing
         THEN RouterReturned(ms.code)
         ELSE RouterReturned(ms.general)

\* MultiModelAgent.choose_model(mission) with self.models = ms.  Both return
\* paths evaluate self.models["general"] (the first as the eagerly computed
\* default of .get), so a mapping without it raises KeyError inside the try,
\* as a mission without .lower() raises AttributeError.  The package's handler
\* turns either into ModelSelectionError; the top-level copy's handler
\* returns self.models["general"], which lets a KeyError out when that entry
\* is the missing one
choose_model(impl, ms, text) ==
    IF text = NotAStr \/ ms.general = Missing
    THEN IF impl = "multi_model_agent"
         THEN IF ms.general = Missing
              THEN RouterRaised("KeyError")
              ELSE RouterReturned(ms.general)
         ELSE RouterRaised("ModelSelectionError")
    ELSE IF HasCodeKeyword(Lower(text)) /\ ms.code # Missing
         THEN RouterReturned(ms.code)
         ELSE RouterReturned(ms.general)

(***************************************************************************)
(* State                                                                   *)
(***************************************************************************)
VARIABLES
    mode,           \* which agent runs: "sync" or "async"
    max_cycles,     \* self.max_cycles
    start,          \* cycle argument of the caller's recursive_build call
    callMission,    \* mission argument of the caller's call
    callContext,    \* context argument of the caller's call
    models,         \* MultiModelAgent.models
    ollama_model,   \* self.ollama_model of the agent that runs
    environ,        \* os.environ["OLLAMA_MODEL"]
    threads,        \* mission threads of the GUI: which one is scheduled, and
                    \* the locals of the one that is not
    cycle,          \* cycle argument of the innermost active call
    mission,        \* mission argument of the innermost active call
    context,        \* context argument of the innermost active call
    pc,             \* position of the innermost active call
    halt,           \* why the run stopped ("none" while it runs)
    raw,            \* text field of the model's response
    code,           \* code returned by ollama_generate
    success,        \* first component of write_and_execute's result
    output,         \* second component of write_and_execute's result
    error_message,  \* str(e) of the CodeExecutionError of the first run
    files,          \* module_<n>.py under project_root
    requests,       \* generation requests sent, in order
    responses,      \* kind of response each request got
    results,        \* review decisions taken, in order
    prunes,         \* destroyer_prune calls, in order
    runs,           \* processes spawned by the current write_and_execute
    installs,       \* install attempts of the current write_and_execute
    arg,            \* argument of a direct call of one of the agents' functions
    ret             \* what that call returned

vars ==
    <<mode, max_cycles, start, callMission, callContext, models, ollama_model,
      environ, threads, cycle, mission, context, pc, halt, raw, code, success, output, error_message, files,
      requests, responses, results, prunes, runs, installs, arg, ret>>

\* a direct call of a function, outside any run
call == <<arg, ret>>

NotCalled == [fn |-> "none"]

config ==
    <<mode, max_cycles, start, callMission, callContext, models, ollama_model,
      environ, threads>>

\* the locals of a call of run_mission that no thread has been started for
NoThread ==
    [cycle |-> 1, mission |-> <<>>, context |-> <<>>, pc |-> "NotSpawned",
     halt |-> "none", raw |-> <<>>, code |-> <<>>, success |-> FALSE,
     output |-> <<>>, error_message |-> <<>>, requests |-> <<>>,
     responses |-> <<>>, results |-> <<>>, prunes |-> <<>>, runs |-> <<>>,
     installs |-> <<>>]

\* the run is the only one in its process
SingleThread == [running |-> 1, saved |-> NoThread]

\* an agent constructed with no model argument while OLLAMA_MODEL is not set
Constructed ==
    /\ models = default_models
    /\ ollama_model = ConstructedModel(Unset, Unset)
    /\ environ = Unset
    /\ threads = SingleThread

frame == <<cycle, mission, context>>

\* no call of recursive_build has done anything yet
NotStarted ==
    /\ cycle = start
    /\ mission = callMission
    /\ context = callContext
    /\ pc = "Pending"
    /\ halt = "none"
    /\ raw = <<>>
    /\ code = <<>>
    /\ success = FALSE
    /\ output = <<>>
    /\ error_message = <<>>
    /\ files = [n \in FileIds |-> NoFile]
    /\ requests = <<>>
    /\ responses = <<>>
    /\ results = <<>>
    /\ prunes = <<>>
    /\ runs = <<>>
    /\ installs = <<>>

Init ==
    /\ mode \in Modes
    /\ max_cycles \in 1..MaxCycles
    /\ start \in {1, max_cycles + 1}
    /\ callMission \in Missions
    /\ callContext \in Contexts
    /\ Constructed
    /\ NotStarted
    /\ arg = <<>>
    /\ ret = NotCalled

(***************************************************************************)
(* recursive_build / recursive_build_async                                 *)
(***************************************************************************)
\* entry of a call: the max_cycles guard
Enter ==
    /\ pc = "Pending"
    /\ IF CycleLimitReached(cycle, max_cycles)
       THEN pc' = "Halted" /\ halt' = "max_cycles_reached"
       ELSE pc' = "Generating" /\ halt' = halt
    /\ UNCHANGED <<config, call, frame, raw, code, success, output, error_message,
                   files, requests, responses, results, prunes, runs, installs>>

\* code = self.ollama_generate(mission, context), with its except clause
Generate ==
    /\ pc = "Generating"
    /\ Len(requests) < RequestBudget(max_cycles)
    /\ \E resp \in Responses :
        LET exc == GenerateRaises(mode, resp.kind)
        IN  /\ requests' = Append(requests,
                   [cycle |-> cycle, mission |-> mission, context |-> context,
                    model |-> ollama_model])
            /\ responses' = Append(responses, resp.kind)
            /\ raw' = resp.raw
            /\ IF exc = "none"
               THEN /\ code' = _clean_generated_code(mode, resp.raw)
                    /\ pc' = "Persisting"
                    /\ halt' = halt
               ELSE /\ code' = code
                    /\ pc' = "Halted"
                    /\ halt' = IF CaughtByController(exc)
                               THEN "generation_failed"
                               ELSE "unhandled_fault"
    /\ UNCHANGED <<config, call, frame, success, output, error_message, files,
                   results, prunes, runs, installs>>

\* a controller that hands the code to the executor whatever became of its
\* own write
Persist_continuing ==
    /\ pc = "Persisting"
    /\ \E w \in WriteOutcomes :
        /\ files' = WriteFile(files, cycle, code, w)
        /\ pc' = "Writing"
        /\ halt' = halt
    /\ UNCHANGED <<config, call, frame, raw, code, success, output,
                   error_message, requests, responses, results, prunes, runs,
                   installs>>

\* the controller's own write of module_<cycle>.py
Persist ==
    /\ pc = "Persisting"
    /\ \E w \in WriteOutcomes :
        /\ files' = WriteFile(files, cycle, code, w)
        /\ IF w = "ok"
           THEN pc' = "Writing" /\ halt' = halt
           ELSE pc' = "Halted" /\ halt' = "persistence_failed"
    /\ UNCHANGED <<config, call, frame, raw, code, success, output, error_message,
                   requests, responses, results, prunes, runs, installs>>

(***************************************************************************)
(* write_and_execute / write_and_execute_async                             *)
(***************************************************************************)
\* an executor that runs the artifact whatever became of the write
WriteArtifact_running_anyway ==
    /\ pc = "Writing"
    /\ \E w \in WriteOutcomes :
        /\ files' = WriteFile(files, cycle, code, w)
        /\ pc' = "Running"
        /\ UNCHANGED <<success, output>>
    /\ UNCHANGED <<config, call, frame, halt, raw, code, error_message,
                   requests, responses, results, prunes, runs, installs>>

\* the executor's write of the artifact
WriteArtifact ==
    /\ pc = "Writing"
    /\ \E w \in WriteOutcomes :
        /\ files' = WriteFile(files, cycle, code, w)
        /\ IF w = "ok"
           THEN /\ pc' = "Running"
                /\ UNCHANGED <<success, output>>
           ELSE /\ pc' = "Reviewing"
                /\ success' = FALSE
                /\ output' = <<"File write error: ", "<exception>">>
    /\ UNCHANGED <<config, call, frame, halt, raw, code, error_message, requests,
                   responses, results, prunes, runs, installs>>

\* first execution of the artifact, and the except clause that classifies it
RunArtifact ==
    /\ pc = "Running"
    /\ \E o \in RunOutcomes :
        LET r == Execute(mode, code, o)
        IN  /\ runs' = Append(runs, [service |-> should_run_with_uvicorn(code),
                                     outcome |-> o])
            /\ IF ~ r.raised
               THEN /\ success' = r.success
                    /\ output' = r.text
                    /\ error_message' = error_message
                    /\ pc' = "Reviewing"
               ELSE /\ error_message' = r.text
                    /\ IF IsModuleNotFound(r.text)
                       THEN /\ pc' = "Installing"
                            /\ UNCHANGED <<success, output>>
                       ELSE /\ pc' = "Reviewing"
                            /\ success' = FALSE
                            /\ output' = r.text
    /\ UNCHANGED <<config, call, frame, halt, raw, code, files, requests, responses,
                   results, prunes, installs>>

\* installed_modules = self.auto_install_module(error_message)
InstallDependencies ==
    /\ pc = "Installing"
    /\ LET matches == FindModules(error_message)
       IN  \E outcomes \in [1..Len(matches) -> InstallOutcomes] :
            LET installed_modules == auto_install_module(error_message, outcomes)
            IN  /\ installs' = [i \in 1..Len(matches) |->
                                   [module |-> matches[i], outcome |-> outcomes[i]]]
                /\ IF installed_modules # <<>>
                   THEN /\ pc' = "Retrying"
                        /\ UNCHANGED <<success, output>>
                   ELSE /\ pc' = "Reviewing"
                        /\ success' = FALSE
                        /\ output' = error_message
    /\ UNCHANGED <<config, call, frame, halt, raw, code, error_message, files,
                   requests, responses, results, prunes, runs>>

\* the single re-run after an install
RetryArtifact ==
    /\ pc = "Retrying"
    /\ \E o \in RunOutcomes :
        LET r == Execute(mode, code, o)
        IN  /\ runs' = Append(runs, [service |-> should_run_with_uvicorn(code),
                                     outcome |-> o])
            /\ success' = r.success
            /\ output' = r.text
            /\ pc' = AfterRetry(r)
    /\ UNCHANGED <<config, call, frame, halt, raw, code, error_message, files,
                   requests, responses, results, prunes, installs>>

(***************************************************************************)
(* Review decision, recursion and prune                                    *)
(***************************************************************************)
\* if self.operator_review(code, filename) and success: ... else: ...
Review ==
    /\ pc = "Reviewing"
    /\ LET ok == Accepted(mode, code, success)
       IN  /\ results' = Append(results,
                  [cycle |-> cycle, code |-> code, success |-> success,
                   output |-> output, accepted |-> ok])
           /\ IF ok /\ ContinueAllowed(cycle, max_cycles)
              THEN /\ cycle' = NextCycle(cycle)
                   /\ mission' = NextMission(mission)
                   /\ context' = NextContext(context, output)
                   /\ pc' = "Pending"
                   /\ halt' = halt
                   /\ raw' = <<>>
                   /\ code' = <<>>
                   /\ success' = FALSE
                   /\ output' = <<>>
                   /\ error_message' = <<>>
                   /\ runs' = <<>>
                   /\ installs' = <<>>
              ELSE /\ IF ok
                      THEN pc' = "Halted" /\ halt' = "completed_final_cycle"
                      ELSE pc' = "Pruning" /\ halt' = halt
                   /\ UNCHANGED <<frame, raw, code, success, output,
                                  error_message, runs, installs>>
    /\ UNCHANGED <<config, call, files, requests, responses, prunes>>

\* self.destroyer_prune(file_path): os.remove may fail, which is only logged
Prune ==
    /\ pc = "Pruning"
    /\ \E removed \in BOOLEAN :
        /\ files' = IF removed THEN RemoveFile(files, cycle) ELSE files
        /\ prunes' = Append(prunes, [cycle |-> cycle, removed |-> removed])
    /\ pc' = "Halted"
    /\ halt' = "pruned"
    /\ UNCHANGED <<config, call, frame, raw, code, success, output, error_message,
                   requests, responses, results, runs, installs>>

Next ==
    \/ Enter
    \/ Generate
    \/ Persist
    \/ WriteArtifact
    \/ RunArtifact
    \/ InstallDependencies
    \/ RetryArtifact
    \/ Review
    \/ Prune

Spec == Init /\ [][Next]_vars

\* the caller's call recursive_build(mission, context), with the default cycle
InitDefaultCall == Init /\ start = 1

\* every call a run makes returns, so each step is taken once it is enabled
FairSpec == InitDefaultCall /\ [][Next]_vars /\ WF_vars(Next)

(***************************************************************************)
(* Properties                                                              *)
(***************************************************************************)
Halted == pc = "Halted"

\* kinds of response that are a failed generation request
FailureKinds ==
    {"transport_error", "http_error", "bad_json", "missing_field", "unexpected"}

\* the review decision of a recorded cycle, recomputed from its code and result
Rejected(r) == ~ (operator_review(mode, r.code) /\ r.success)

\* C1: a run started at cycle 1 never requests, writes or executes for a cycle
\* beyond max_cycles and sends at most max_cycles requests; a call entered
\* beyond max_cycles halts at once and creates no module_<cycle>.py
CycleBound ==
    /\ start = 1 =>
        /\ Len(requests) <= max_cycles
        /\ \A i \in 1..Len(requests) : requests[i].cycle <= max_cycles
        /\ \A n \in FileIds : n > max_cycles => ~ files[n].exists
        /\ runs # <<>> => cycle <= max_cycles
    /\ start > max_cycles =>
        /\ pc \in {"Pending", "Halted"}
        /\ Halted => halt = "max_cycles_reached"
        /\ requests = <<>>
        /\ runs = <<>>
        /\ ~ files[start].exists

CycleBoundWitness ==
    /\ Halted
    /\ start = 1
    /\ max_cycles >= 2
    /\ Len(requests) = max_cycles
    /\ files[max_cycles].exists

\* C2: every run started at cycle 1 eventually halts
Termination == <>Halted

TerminationWitness ==
    /\ Halted
    /\ start = 1
    /\ Len(requests) >= 2
    /\ Len(runs) = 2

SequentialCycles ==
    start = 1 =>
        /\ \A i \in 1..Len(requests) : requests[i].cycle = i
        /\ \A i \in 1..Len(results) : results[i].cycle = i
        /\ Len(results) <= Len(requests)
        /\ Len(requests) <= Len(results) + 1
        /\ \A i \in 2..Len(requests) : ~ Rejected(results[i - 1])
        /\ cycle <= Len(requests) + 1

SequentialCyclesWitness ==
    /\ start = 1
    /\ Len(requests) = 3
    /\ Len(results) = 2
    /\ pc = "Running"

\* C6 (as claimed): from cycle 2 on the mission sent is the prefix followed
\* by the caller's mission, the prefix occurring once
MissionRewrite ==
    \A i \in 2..Len(requests) :
        requests[i].mission = <<MissionPrefix>> \o callMission

ArtifactAccumulation ==
    /\ \A i \in 1..Len(results) :
        results[i].cycle < cycle =>
            files[results[i].cycle] = [exists |-> TRUE, content |-> results[i].code]
    /\ \A j \in 1..Len(prunes) : prunes[j].cycle = cycle
    /\ \A n \in FileIds : n > cycle => ~ files[n].exists

ArtifactAccumulationWitness ==
    /\ Halted
    /\ halt = "pruned"
    /\ start = 1
    /\ cycle = 3
    /\ prunes[1].removed
    /\ files[1].exists
    /\ files[2].exists
    /\ ~ files[3].exists

StepOrder ==
    /\ [](files[cycle].exists =>
            /\ requests # <<>>
            /\ requests[Len(requests)].cycle = cycle
            /\ responses[Len(responses)] = "ok")
    /\ [](pc = "Persisting" => code = _clean_generated_code(mode, raw))
    /\ []((runs # <<>> /\ ~ Halted) =>
            files[cycle] = [exists |-> TRUE, content |-> code])
    /\ [][ /\ code' # code => pc \in {"Generating", "Reviewing"}
           /\ Len(runs') > Len(runs) =>
                /\ files[cycle] = [exists |-> TRUE, content |-> code]
                /\ Len(results) = Len(requests) - 1
           /\ Len(results') > Len(results) =>
                /\ Len(results') = Len(requests)
                /\ results'[Len(results')].cycle = requests[Len(requests)].cycle
                /\ results'[Len(results')].success = success
                /\ results'[Len(results')].output = output
                /\ runs = <<>> =>
                       (~ success /\ output = <<"File write error: ", "<exception>">>)
                /\ runs # <<>> =>
                       LET r == Execute(mode, code, runs[Len(runs)].outcome)
                       IN  success = (~ r.raised /\ r.success)
                /\ results'[Len(results')].accepted =>
                       (runs # <<>> /\ success /\ files[cycle].content = code)
         ]_vars

StepOrderWitness ==
    /\ Len(results) = 2
    /\ results[1].accepted
    /\ results[2].accepted
    /\ Halted
    /\ Len(runs) = 2

\* the agent that is not running
OtherMode == IF mode = "sync" THEN "async" ELSE "sync"

\* the other agent's run of an artifact it runs as a service or as a script
ExecuteOther(service, o) ==
    IF service
    THEN _execute_with_uvicorn(OtherMode, o)
    ELSE _execute_regular_python(OtherMode, o)

\* what the other agent's code does at the step the running agent takes, from
\* the same control state and with the same external outcome; its extracted
\* code is compared when the response arrives, on the two facts the later
\* steps use (service or script, review verdict)
OtherAgentStep ==
    LET other == OtherMode
    IN  /\ (pc = "Generating" /\ pc' # pc) =>
               LET exc2 == GenerateRaises(other, responses'[Len(responses')])
               IN  /\ pc' = IF exc2 = "none" THEN "Persisting" ELSE "Halted"
                   /\ halt' = IF exc2 = "none" THEN halt
                              ELSE IF CaughtByController(exc2)
                                   THEN "generation_failed" ELSE "unhandled_fault"
                   /\ exc2 = "none" =>
                          \A code2 \in {_clean_generated_code(other, raw')} :
                              /\ should_run_with_uvicorn(code2)
                                     <=> should_run_with_uvicorn(code')
                              /\ operator_review(other, code2)
                                     <=> operator_review(mode, code')
                              /\ code2 # code' =>
                                     (code2 = Fallback(other) /\ code' = Fallback(mode))
        /\ (pc = "Running" /\ pc' # pc) =>
               LET last == runs'[Len(runs')]
                   r2 == ExecuteOther(last.service, last.outcome)
               IN  /\ pc' = IF r2.raised /\ IsModuleNotFound(r2.text)
                            THEN "Installing" ELSE "Reviewing"
                   /\ pc' = "Reviewing" => success' = (~ r2.raised /\ r2.success)
                   /\ (pc' = "Reviewing" /\ success') => output' = r2.text
        /\ (pc = "Installing" /\ pc' # pc) =>
               LET e2 == ExecuteOther(runs[1].service, runs[1].outcome).text
                   outcomes == [i \in 1..Len(installs') |-> installs'[i].outcome]
               IN  /\ Len(installs') = Len(FindModules(e2))
                   /\ \A i \in 1..Len(installs') :
                          installs'[i].module = FindModules(e2)[i]
                   /\ pc' = IF auto_install_module(e2, outcomes) # <<>>
                            THEN "Retrying" ELSE "Reviewing"
                   /\ pc' = "Reviewing" => ~ success'
        /\ (pc = "Retrying" /\ pc' # pc) =>
               LET last == runs'[Len(runs')]
                   r2 == ExecuteOther(last.service, last.outcome)
               IN  /\ pc' = "Reviewing"
                   /\ success' = (~ r2.raised /\ r2.success)
                   /\ success' => output' = r2.text
        /\ (pc = "Reviewing" /\ pc' # pc) =>
               LET ok2 == results'[Len(results')].accepted
               IN  /\ ok2 = (operator_review(mode, code) /\ success)
                   /\ pc' = IF ok2 /\ ContinueAllowed(cycle, max_cycles) THEN "Pending"
                            ELSE IF ok2 THEN "Halted" ELSE "Pruning"
                   /\ pc' = "Pending" => context' = output
        /\ \A n \in FileIds :
               files'[n].exists # files[n].exists =>
                   pc \in {"Persisting", "Pruning"}

RetryAtMostOnce ==
    /\ [](Len(runs) <= 2)
    /\ [](Len(runs) = 2 =>
            LET r == Execute(mode, code, runs[2].outcome)
            IN  /\ pc \in {"Reviewing", "Pruning", "Halted"}
                /\ success = (~ r.raised /\ r.success)
                /\ output = r.text)
    /\ [][ /\ (pc = "Installing" /\ pc' # pc) => (Len(runs) = 1 /\ installs = <<>>)
           /\ (pc' = "Installing" /\ pc' # pc) => (pc = "Running" /\ Len(runs') = 1)
           /\ (pc = "Retrying" /\ pc' # pc) =>
                  (pc' = "Reviewing" /\ installs' = installs)
         ]_vars

RetryAtMostOnceWitness ==
    /\ Halted
    /\ halt = "pruned"
    /\ Len(runs) = 2
    /\ runs[2].outcome.kind = "nonzero"
    /\ IsModuleNotFound(output)
    /\ FindModules(output) # <<>>
    /\ Len(installs) = 1

\* C14: when write_and_execute has returned, the artifact was run a second
\* time exactly if the first run raised a failure containing
\* ModuleNotFoundError and at least one install succeeded; otherwise a failed
\* first run is returned with its own text, and installs were attempted only
\* for the names found in a missing-dependency failure
RetryCondition ==
    (pc = "Reviewing" /\ runs # <<>>) =>
        LET r1 == Execute(mode, code, runs[1].outcome)
            missing == r1.raised /\ IsModuleNotFound(r1.text)
            installed == \E i \in 1..Len(installs) : installs[i].outcome = "ok"
        IN  /\ Len(runs) = 2 <=> (missing /\ installed)
            /\ (r1.raised /\ ~ (missing /\ installed)) =>
                   (~ success /\ output = r1.text)
            /\ ~ r1.raised => (success = r1.success /\ output = r1.text)
            /\ ~ missing => installs = <<>>
            /\ missing =>
                   /\ Len(installs) = Len(FindModules(r1.text))
                   /\ \A i \in 1..Len(installs) :
                          installs[i].module = FindModules(r1.text)[i]

RetryConditionWitness ==
    /\ pc = "Reviewing"
    /\ Len(runs) = 1
    /\ Len(installs) = 2
    /\ \A i \in 1..2 : installs[i].outcome # "ok"
    /\ ~ success
    /\ output = error_message
    /\ IsModuleNotFound(output)

\* C15: a cycle whose first run failed for a missing dependency, whose install
\* succeeded, whose re-run succeeded and whose code passes the review gate is
\* accepted: nothing is pruned, its file stays, and below max_cycles the next
\* call is entered for cycle + 1 with the re-run's output as context, passes
\* the guard, and sends its request with that context
DependencyRecovery ==
    [][ /\ ( /\ pc = "Reviewing" /\ pc' # pc
             /\ Len(runs) = 2
             /\ success
             /\ operator_review(mode, code) ) =>
               /\ IsModuleNotFound(error_message)
               /\ \E i \in 1..Len(installs) : installs[i].outcome = "ok"
               /\ results'[Len(results')].accepted
               /\ pc' # "Pruning"
               /\ prunes' = <<>>
               /\ files' = files
               /\ files[cycle] = [exists |-> TRUE, content |-> code]
               /\ output = Execute(mode, code, runs[2].outcome).text
               /\ cycle < max_cycles =>
                      (pc' = "Pending" /\ cycle' = cycle + 1 /\ context' = output)
               /\ cycle >= max_cycles =>
                      (pc' = "Halted" /\ halt' = "completed_final_cycle")
        /\ (pc = "Pending" /\ pc' # pc /\ cycle <= max_cycles) =>
               (pc' = "Generating" /\ context' = context /\ cycle' = cycle)
        /\ (pc = "Generating" /\ pc' # pc) =>
               requests' = Append(requests,
                   [cycle |-> cycle, mission |-> mission, context |-> context,
                    model |-> ollama_model])
      ]_vars

DependencyRecoveryWitness ==
    /\ pc = "Reviewing"
    /\ cycle = 1
    /\ max_cycles >= 2
    /\ Len(runs) = 2
    /\ IsModuleNotFound(error_message)
    /\ success
    /\ output = <<"hello">>
    /\ operator_review(mode, code)

\* C16: one call of the resolver attempts an install for every name the
\* failure text gives, in order, whatever the earlier installs did; it returns
\* to write_and_execute, and its result holds exactly the names whose install
\* succeeded
ResolverIsolation ==
    [][ (pc = "Installing" /\ pc' # pc) =>
            LET matches == FindModules(error_message)
                outcomes == [i \in 1..Len(installs') |-> installs'[i].outcome]
                succeeded == {i \in 1..Len(installs') : outcomes[i] = "ok"}
            IN  /\ Len(installs') = Len(matches)
                /\ \A i \in 1..Len(matches) : installs'[i].module = matches[i]
                /\ pc' \in {"Retrying", "Reviewing"}
                /\ halt' = halt
                /\ \A result \in {auto_install_module(error_message, outcomes)} :
                       /\ Len(result) = Cardinality(succeeded)
                       /\ {result[j] : j \in 1..Len(result)}
                              = {matches[i] : i \in succeeded}
                       /\ pc' = "Retrying" <=> result # <<>>
      ]_vars

ResolverIsolationWitness ==
    /\ pc = "Retrying"
    /\ Len(installs) = 2
    /\ installs[1].outcome = "error"
    /\ installs[2].outcome = "ok"
    /\ installs[1].module = "foo"
    /\ installs[2].module = "bar"

\* the failure text contains the signature No module named '<name>'
HasSignature(text, name) ==
    \E i \in 1..Len(text) : MatchAt(text, i) /\ text[i + 1] = name

\* C17 (as claimed): one call of the resolver makes exactly one install
\* attempt for each name whose signature the failure text contains, and none
\* when the text contains no signature
InstallCount ==
    [][ (pc = "Installing" /\ pc' # pc) =>
            /\ \A name \in ModuleNames :
                   HasSignature(error_message, name) =>
                       Cardinality({i \in 1..Len(installs') :
                                       installs'[i].module = name}) = 1
            /\ (\A name \in ModuleNames : ~ HasSignature(error_message, name)) =>
                   installs' = <<>>
      ]_vars

\* write_and_execute has returned after a single run of a script
ScriptRunReturned ==
    /\ pc = "Reviewing"
    /\ Len(runs) = 1
    /\ ~ runs[1].service

\* C18 (as claimed): for a script, exit code 0 gives (True, captured stdout)
\* and a non-zero exit without the missing-dependency signature gives
\* (False, captured stderr)
ScriptClassificationAsClaimed ==
    ScriptRunReturned =>
        LET o == runs[1].outcome
        IN  /\ o.kind = "exit0" => (success /\ output = o.out)
            /\ (o.kind = "nonzero" /\ ~ IsModuleNotFound(o.out)) =>
                   (~ success /\ output = o.out)

\* C18 (amended): for a script, exit code 0 gives (True, captured stdout) and
\* a non-zero exit without the missing-dependency signature gives False with
\* the message "Python execution failed: " followed by the captured stderr,
\* which the async agent puts after "Unexpected error executing Python: "
ScriptClassification ==
    ScriptRunReturned =>
        LET o == runs[1].outcome
        IN  /\ o.kind = "exit0" => (success /\ output = o.out)
            /\ (o.kind = "nonzero" /\ ~ IsModuleNotFound(o.out)) =>
                   /\ ~ success
                   /\ installs = <<>>
                   /\ mode = "sync" =>
                          output = <<"Python execution failed: ">> \o o.out
                   /\ mode = "async" =>
                          output = <<"Unexpected error executing Python: ",
                                     "Python execution failed: ">> \o o.out

ScriptClassificationWitness ==
    /\ ScriptRunReturned
    /\ mode = "async"
    /\ runs[1].outcome.kind = "nonzero"
    /\ runs[1].outcome.out = <<"Traceback: boom">>
    /\ ~ success

\* the last run of the current call was a script that outlived the wait
ScriptTimedOut ==
    /\ runs # <<>>
    /\ ~ runs[Len(runs)].service
    /\ runs[Len(runs)].outcome.kind = "timeout"

ServiceRunReturned ==
    /\ pc = "Reviewing"
    /\ Len(runs) = 1
    /\ runs[1].service

\* C20: in service mode a process still alive when the wait expires gives
\* (True, the fixed status message), and a process that exits before the
\* wait expires gives a failure whatever its exit code, exit code 0 included
ServiceOutcome ==
    ServiceRunReturned =>
        LET o == runs[1].outcome
        IN  /\ o.kind = "timeout" => (success /\ output = <<UvicornRunning>>)
            /\ o.kind # "timeout" => ~ success

(***************************************************************************)
(* Direct calls of the text functions: extraction, review, run-mode        *)
(* detection                                                               *)
(***************************************************************************)
\* # from fastapi import FastAPI
LineCommentedImport ==
    <<"#", " ", "f", "r", "o", "m", " ", "f", "a", "s", "t", "a", "p", "i",
      " ", "i", "m", "p", "o", "r", "t", " ", "F", "a", "s", "t", "A", "P",
      "I">>

\* # app = FastAPI()
LineCommentedApp ==
    <<"#", " ", "a", "p", "p", " ", "=", " ", "F", "a", "s", "t", "A", "P",
      "I", "(", ")">>

\* app = FastAPI()
LineApp ==
    <<"a", "p", "p", " ", "=", " ", "F", "a", "s", "t", "A", "P", "I", "(",
      ")">>

\* import uvicorn
LineImportUvicorn ==
    <<"i", "m", "p", "o", "r", "t", " ", "u", "v", "i", "c", "o", "r", "n">>

\* from fastapi import FastAPI
LineImportFastAPI ==
    <<"f", "r", "o", "m", " ", "f", "a", "s", "t", "a", "p", "i", " ", "i",
      "m", "p", "o", "r", "t", " ", "F", "a", "s", "t", "A", "P", "I">>

\* print('Hello world')
LinePrint ==
    <<"p", "r", "i", "n", "t", "(", "'", "H", "e", "l", "l", "o", " ", "w",
      "o", "r", "l", "d", "'", ")">>

\* This is just text without any code blocks.
LineJustText ==
    <<"T", "h", "i", "s", " ", "i", "s", " ", "j", "u", "s", "t", " ", "t",
      "e", "x", "t", " ", "w", "i", "t", "h", "o", "u", "t", " ", "a", "n",
      "y", " ", "c", "o", "d", "e", " ", "b", "l", "o", "c", "k", "s", ".">>

\* This script does something
LineThisScript ==
    <<"T", "h", "i", "s", " ", "s", "c", "r", "i", "p", "t", " ", "d", "o",
      "e", "s", " ", "s", "o", "m", "e", "t", "h", "i", "n", "g">>

\* x = 1
LineShort ==
    <<"x", " ", "=", " ", "1">>

\* def hello():
LineDef ==
    <<"d", "e", "f", " ", "h", "e", "l", "l", "o", "(", ")", ":">>

\* class A: pass
LineClass ==
    <<"c", "l", "a", "s", "s", " ", "A", ":", " ", "p", "a", "s", "s">>

\* 42
LineNumber ==
    <<"4", "2">>

\* invalid code here
LineInvalid ==
    <<"i", "n", "v", "a", "l", "i", "d", " ", "c", "o", "d", "e", " ", "h",
      "e", "r", "e">>

\* <backtick><backtick><backtick>python
LineFence ==
    <<"<backtick>", "<backtick>", "<backtick>", "p", "y", "t", "h", "o", "n">>

\* print(1) [PYT...HON]: removing the ellipsis leaves a [PYTHON] token
LineNestedToken ==
    <<"p", "r", "i", "n", "t", "(", "1", ")", " ", "[", "P", "Y", "T", ".",
      ".", ".", "H", "O", "N", "]">>

\* "x = python ": the phrase "python " shows only with the trailing blank
LineTrailingPython ==
    <<"x", " ", "=", " ", "p", "y", "t", "h", "o", "n", " ">>

SourceLines ==
    {LineCommentedImport,
     LineCommentedApp,
     LineApp,
     LineImportUvicorn,
     LineImportFastAPI,
     LinePrint,
     LineJustText,
     LineThisScript,
     LineShort,
     LineDef,
     LineClass,
     LineNumber,
     LineInvalid,
     LineFence,
     LineNestedToken,
     LineTrailingPython}

\* the texts the functions are called with: no line, one line, two lines
\* (the longest line is called on its own only)
SourceTexts ==
    {<<>>} \cup SourceLines
        \cup {a \o <<"\n">> \o b : a \in SourceLines \ {LineJustText},
                                   b \in SourceLines \ {LineJustText}}

\* an agent has been constructed and a text is at hand; nothing is running
TextInit ==
    /\ mode \in Modes
    /\ max_cycles = 1
    /\ start = 1
    /\ callMission \in Missions
    /\ callContext \in Contexts
    /\ Constructed
    /\ NotStarted
    /\ arg \in SourceTexts
    /\ ret = NotCalled

\* agent._clean_generated_code(arg)
Call_clean_generated_code ==
    /\ ret = NotCalled
    /\ ret' = [fn |-> "_clean_generated_code",
               value |-> _clean_generated_code(mode, arg)]
    /\ UNCHANGED <<config, frame, pc, halt, raw, code, success, output,
                   error_message, files, requests, responses, results,
                   prunes, runs, installs, arg>>

\* agent.operator_review(arg, filename)
Call_operator_review ==
    /\ ret = NotCalled
    /\ ret' = [fn |-> "operator_review", value |-> operator_review(mode, arg)]
    /\ UNCHANGED <<config, frame, pc, halt, raw, code, success, output,
                   error_message, files, requests, responses, results,
                   prunes, runs, installs, arg>>

\* agent.should_run_with_uvicorn(arg, file_path)
Call_should_run_with_uvicorn ==
    /\ ret = NotCalled
    /\ ret' = [fn |-> "should_run_with_uvicorn",
               value |-> should_run_with_uvicorn(arg)]
    /\ UNCHANGED <<config, frame, pc, halt, raw, code, success, output,
                   error_message, files, requests, responses, results,
                   prunes, runs, installs, arg>>

TextNext ==
    \/ Call_clean_generated_code
    \/ Call_operator_review
    \/ Call_should_run_with_uvicorn

TextSpec == TextInit /\ [][TextNext]_vars

\* the part of a line before its comment
CodePart(line) ==
    IF \E i \in 1..Len(line) : line[i] = "#"
    THEN SubSeq(line, 1, (CHOOSE i \in 1..Len(line) :
                              /\ line[i] = "#"
                              /\ \A j \in 1..(i - 1) : line[j] # "#") - 1)
    ELSE line

\* p occurs in text outside comments
OutsideComments(text, p) ==
    \E i \in 1..Len(SplitLines[text]) : Contains(CodePart(SplitLines[text][i]), p)

\* C21: should_run_with_uvicorn returns True exactly when the source both
\* references the web framework and instantiates the application object,
\* comments not counting: a source with one signal only, or with both only
\* inside comments, is run in script mode
ServiceDetection ==
    ret.fn = "should_run_with_uvicorn" =>
        (ret.value <=>
            /\ OutsideComments(arg, kw_FastAPI) \/ OutsideComments(arg, kw_uvicorn)
            /\ OutsideComments(arg, kw_app_FastAPI))

\* second component of write_and_execute's result when its own write failed
FileWriteError == <<"File write error: ", "<exception>">>

NoUnhandledFault == halt # "unhandled_fault"

(***************************************************************************)
(* StaticValidator: CodeSandbox.validate_code                              *)
(***************************************************************************)
allowed_modules ==
    {"math", "random", "datetime", "json", "csv", "re", "collections",
     "itertools", "functools", "typing", "fastapi", "pydantic"}

\* an ast node, by the attributes validate_code reads (expression contexts
\* are left out of the walk)
Node(t) ==
    [type |-> t, id |-> "", attr |-> "", names |-> <<>>, module |-> <<>>,
     func_type |-> "", func_id |-> "", nargs |-> 0, arg2_type |-> "",
     arg2_s |-> <<>>, value_type |-> "", value_id |-> ""]

\* a character that utf-8 cannot encode (a lone surrogate, U+D800)
Surrogate == "<U+D800>"

\* import os
Py_import_os ==
    <<"i", "m", "p", "o", "r", "t", " ", "o", "s">>

\* import os.path
Py_import_os_path ==
    <<"i", "m", "p", "o", "r", "t", " ", "o", "s", ".", "p", "a", "t", "h">>

\* import math
Py_import_math ==
    <<"i", "m", "p", "o", "r", "t", " ", "m", "a", "t", "h">>

\* from os import system
Py_from_os_import_system ==
    <<"f", "r", "o", "m", " ", "o", "s", " ", "i", "m", "p", "o", "r", "t",
      " ", "s", "y", "s", "t", "e", "m">>

\* from . import x
Py_from_dot_import_x ==
    <<"f", "r", "o", "m", " ", ".", " ", "i", "m", "p", "o", "r", "t", " ",
      "x">>

\* eval('1')
Py_eval ==
    <<"e", "v", "a", "l", "(", "'", "1", "'", ")">>

\* exec('x = 1')
Py_exec ==
    <<"e", "x", "e", "c", "(", "'", "x", " ", "=", " ", "1", "'", ")">>

\* __import__('os')
Py_dunder_import ==
    <<"_", "_", "i", "m", "p", "o", "r", "t", "_", "_", "(", "'", "o", "s",
      "'", ")">>

\* open('f', 'w')
Py_open_w ==
    <<"o", "p", "e", "n", "(", "'", "f", "'", ",", " ", "'", "w", "'", ")">>

\* open('f', 'a')
Py_open_a ==
    <<"o", "p", "e", "n", "(", "'", "f", "'", ",", " ", "'", "a", "'", ")">>

\* open('f', 'r+')
Py_open_r_plus ==
    <<"o", "p", "e", "n", "(", "'", "f", "'", ",", " ", "'", "r", "+", "'",
      ")">>

\* open('f', 'r')
Py_open_r ==
    <<"o", "p", "e", "n", "(", "'", "f", "'", ",", " ", "'", "r", "'", ")">>

\* open('f')
Py_open_default ==
    <<"o", "p", "e", "n", "(", "'", "f", "'", ")">>

\* os.system('ls')
Py_os_system ==
    <<"o", "s", ".", "s", "y", "s", "t", "e", "m", "(", "'", "l", "s", "'",
      ")">>

\* subprocess.run('ls')
Py_subprocess_run ==
    <<"s", "u", "b", "p", "r", "o", "c", "e", "s", "s", ".", "r", "u", "n",
      "(", "'", "l", "s", "'", ")">>

\* x = 1
Py_assign ==
    <<"x", " ", "=", " ", "1">>

\* m.eval('1')
Py_method_eval ==
    <<"m", ".", "e", "v", "a", "l", "(", "'", "1", "'", ")">>

\* def (
Py_syntax_error ==
    <<"d", "e", "f", " ", "(">>

\* x = '<U+D800>'
Py_surrogate ==
    <<"x", " ", "=", " ", "'", Surrogate, "'">>

\* the statement ast.parse makes of each line, as the levels of its subtree
\* import os
Ast_import_os ==
    <<<<[Node("Import") EXCEPT !.names = <<<<"os">>>>]>>,
       <<Node("alias")>>>>

\* import os.path
Ast_import_os_path ==
    <<<<[Node("Import") EXCEPT !.names = <<<<"os", "path">>>>]>>,
       <<Node("alias")>>>>

\* import math
Ast_import_math ==
    <<<<[Node("Import") EXCEPT !.names = <<<<"math">>>>]>>,
       <<Node("alias")>>>>

\* from os import system
Ast_from_os_import_system ==
    <<<<[Node("ImportFrom") EXCEPT !.module = <<"os">>]>>,
       <<Node("alias")>>>>

\* from . import x
Ast_from_dot_import_x ==
    <<<<Node("ImportFrom")>>,
       <<Node("alias")>>>>

\* eval('1')
Ast_eval ==
    <<<<Node("Expr")>>,
       <<[Node("Call") EXCEPT !.func_type = "Name", !.func_id = "eval", !.nargs = 1]>>,
       <<[Node("Name") EXCEPT !.id = "eval"],
         Node("Constant")>>>>

\* exec('x = 1')
Ast_exec ==
    <<<<Node("Expr")>>,
       <<[Node("Call") EXCEPT !.func_type = "Name", !.func_id = "exec", !.nargs = 1]>>,
       <<[Node("Name") EXCEPT !.id = "exec"],
         Node("Constant")>>>>

\* __import__('os')
Ast_dunder_import ==
    <<<<Node("Expr")>>,
       <<[Node("Call") EXCEPT !.func_type = "Name", !.func_id = "__import__", !.nargs = 1]>>,
       <<[Node("Name") EXCEPT !.id = "__import__"],
         Node("Constant")>>>>

\* open('f', 'w')
Ast_open_w ==
    <<<<Node("Expr")>>,
       <<[Node("Call") EXCEPT !.func_type = "Name", !.func_id = "open", !.nargs = 2, !.arg2_type = "Str", !.arg2_s = <<"w">>]>>,
       <<[Node("Name") EXCEPT !.id = "open"],
         Node("Constant"),
         Node("Constant")>>>>

\* open('f', 'a')
Ast_open_a ==
    <<<<Node("Expr")>>,
       <<[Node("Call") EXCEPT !.func_type = "Name", !.func_id = "open", !.nargs = 2, !.arg2_type = "Str", !.arg2_s = <<"a">>]>>,
       <<[Node("Name") EXCEPT !.id = "open"],
         Node("Constant"),
         Node("Constant")>>>>

\* open('f', 'r+')
Ast_open_r_plus ==
    <<<<Node("Expr")>>,
       <<[Node("Call") EXCEPT !.func_type = "Name", !.func_id = "open", !.nargs = 2, !.arg2_type = "Str", !.arg2_s = <<"r", "+">>]>>,
       <<[Node("Name") EXCEPT !.id = "open"],
         Node("Constant"),
         Node("Constant")>>>>

\* open('f', 'r')
Ast_open_r ==
    <<<<Node("Expr")>>,
       <<[Node("Call") EXCEPT !.func_type = "Name", !.func_id = "open", !.nargs = 2, !.arg2_type = "Str", !.arg2_s = <<"r">>]>>,
       <<[Node("Name") EXCEPT !.id = "open"],
         Node("Constant"),
         Node("Constant")>>>>

\* open('f')
Ast_open_default ==
    <<<<Node("Expr")>>,
       <<[Node("Call") EXCEPT !.func_type = "Name", !.func_id = "open", !.nargs = 1]>>,
       <<[Node("Name") EXCEPT !.id = "open"],
         Node("Constant")>>>>

\* os.system('ls')
Ast_os_system ==
    <<<<Node("Expr")>>,
       <<[Node("Call") EXCEPT !.func_type = "Attribute", !.nargs = 1]>>,
       <<[Node("Attribute") EXCEPT !.attr = "system", !.value_type = "Name", !.value_id = "os"],
         Node("Constant")>>,
       <<[Node("Name") EXCEPT !.id = "os"]>>>>

\* subprocess.run('ls')
Ast_subprocess_run ==
    <<<<Node("Expr")>>,
       <<[Node("Call") EXCEPT !.func_type = "Attribute", !.nargs = 1]>>,
       <<[Node("Attribute") EXCEPT !.attr = "run", !.value_type = "Name", !.value_id = "subprocess"],
         Node("Constant")>>,
       <<[Node("Name") EXCEPT !.id = "subprocess"]>>>>

\* x = 1
Ast_assign ==
    <<<<Node("Assign")>>,
       <<[Node("Name") EXCEPT !.id = "x"],
         Node("Constant")>>>>

\* m.eval('1')
Ast_method_eval ==
    <<<<Node("Expr")>>,
       <<[Node("Call") EXCEPT !.func_type = "Attribute", !.nargs = 1]>>,
       <<[Node("Attribute") EXCEPT !.attr = "eval", !.value_type = "Name", !.value_id = "m"],
         Node("Constant")>>,
       <<[Node("Name") EXCEPT !.id = "m"]>>>>

\* print('hi')
Ast_RawPrint ==
    <<<<Node("Expr")>>,
       <<[Node("Call") EXCEPT !.func_type = "Name", !.func_id = "print", !.nargs = 1]>>,
       <<[Node("Name") EXCEPT !.id = "print"],
         Node("Constant")>>>>

\* app = FastAPI()
Ast_RawService ==
    <<<<Node("Assign")>>,
       <<[Node("Name") EXCEPT !.id = "app"],
         [Node("Call") EXCEPT !.func_type = "Name", !.func_id = "FastAPI"]>>,
       <<[Node("Name") EXCEPT !.id = "FastAPI"]>>>>

\* print('Hello world from GODCodeAgent')
Ast_fallback_sync ==
    <<<<Node("Expr")>>,
       <<[Node("Call") EXCEPT !.func_type = "Name", !.func_id = "print", !.nargs = 1]>>,
       <<[Node("Name") EXCEPT !.id = "print"],
         Node("Constant")>>>>

\* print('Hello world from AsyncAgent')
Ast_fallback_async ==
    <<<<Node("Expr")>>,
       <<[Node("Call") EXCEPT !.func_type = "Name", !.func_id = "print", !.nargs = 1]>>,
       <<[Node("Name") EXCEPT !.id = "print"],
         Node("Constant")>>>>

\* ast.parse of a one-line source: its statement, or the SyntaxError
ParseLine(line) ==
    CASE line = <<>> -> [kind |-> "empty", levels |-> <<>>]
      [] line = Py_syntax_error -> [kind |-> "SyntaxError", levels |-> <<>>]
      [] line = Py_import_os -> [kind |-> "stmt", levels |-> Ast_import_os]
      [] line = Py_import_os_path -> [kind |-> "stmt", levels |-> Ast_import_os_path]
      [] line = Py_import_math -> [kind |-> "stmt", levels |-> Ast_import_math]
      [] line = Py_from_os_import_system -> [kind |-> "stmt", levels |-> Ast_from_os_import_system]
      [] line = Py_from_dot_import_x -> [kind |-> "stmt", levels |-> Ast_from_dot_import_x]
      [] line = Py_eval -> [kind |-> "stmt", levels |-> Ast_eval]
      [] line = Py_exec -> [kind |-> "stmt", levels |-> Ast_exec]
      [] line = Py_dunder_import -> [kind |-> "stmt", levels |-> Ast_dunder_import]
      [] line = Py_open_w -> [kind |-> "stmt", levels |-> Ast_open_w]
      [] line = Py_open_a -> [kind |-> "stmt", levels |-> Ast_open_a]
      [] line = Py_open_r_plus -> [kind |-> "stmt", levels |-> Ast_open_r_plus]
      [] line = Py_open_r -> [kind |-> "stmt", levels |-> Ast_open_r]
      [] line = Py_open_default -> [kind |-> "stmt", levels |-> Ast_open_default]
      [] line = Py_os_system -> [kind |-> "stmt", levels |-> Ast_os_system]
      [] line = Py_subprocess_run -> [kind |-> "stmt", levels |-> Ast_subprocess_run]
      [] line = Py_assign -> [kind |-> "stmt", levels |-> Ast_assign]
      [] line = Py_method_eval -> [kind |-> "stmt", levels |-> Ast_method_eval]
      [] line = RawPrint -> [kind |-> "stmt", levels |-> Ast_RawPrint]
      [] line = RawService -> [kind |-> "stmt", levels |-> Ast_RawService]
      [] line = fallback_sync -> [kind |-> "stmt", levels |-> Ast_fallback_sync]
      [] line = fallback_async -> [kind |-> "stmt", levels |-> Ast_fallback_async]

RECURSIVE Flatten(_)
Flatten(ss) == IF ss = <<>> THEN <<>> ELSE Head(ss) \o Flatten(Tail(ss))

\* the nodes at one depth of the module, statement by statement
Level(stmts, d) ==
    Flatten([i \in 1..Len(stmts) |->
                 IF d <= Len(stmts[i]) THEN stmts[i][d] ELSE <<>>])

MaxDepth == 6

\* ast.walk(tree): breadth first from the Module node
Walk(stmts) ==
    <<Node("Module")>> \o Flatten([d \in 1..MaxDepth |-> Level(stmts, d)])

\* tree = ast.parse(code), for a source with one statement per line; the
\* source is encoded before it is parsed
ast_parse(source) ==
    LET lines == SplitLines[source]
        parsed == [i \in 1..Len(lines) |-> ParseLine(lines[i])]
    IN  IF \E i \in 1..Len(source) : source[i] = Surrogate
        THEN [kind |-> "UnicodeEncodeError", nodes |-> <<>>]
        ELSE IF \E i \in 1..Len(parsed) : parsed[i].kind = "SyntaxError"
        THEN [kind |-> "SyntaxError", nodes |-> <<>>]
        ELSE [kind |-> "tree",
              nodes |-> Walk([i \in 1..Len(parsed) |-> parsed[i].levels])]

\* the violations appended for the names of one Import node
ImportViolations(names) ==
    Flatten([i \in 1..Len(names) |->
                 IF names[i][1] \notin allowed_modules
                 THEN << <<"Disallowed import: ", names[i][1]>> >>
                 ELSE <<>>])

\* the if / elif chain of the loop body, for one node of the walk
NodeViolations(node) ==
    IF node.type = "Import"
    THEN ImportViolations(node.names)
    ELSE IF node.type = "ImportFrom"
    THEN LET module_name == IF node.module = <<>> THEN "" ELSE node.module[1]
         IN  IF module_name \notin allowed_modules
             THEN << <<"Disallowed import from: ", module_name>> >>
             ELSE <<>>
    ELSE IF node.type = "Call"
    THEN IF node.func_type = "Name" /\ node.func_id \in {"exec", "eval"}
         THEN << <<"Disallowed function call: ", node.func_id>> >>
         ELSE <<>>
    ELSE IF node.type = "Call" /\ node.func_type = "Name"
                /\ node.func_id = "__import__"
    THEN << <<"Disallowed __import__ call">> >>
    ELSE IF node.type = "Attribute"
    THEN IF node.value_type = "Name"
         THEN IF node.value_id = "os"
                   /\ node.attr \in {"system", "popen", "spawn", "exec"}
              THEN << <<"Disallowed os.", node.attr, " call">> >>
              ELSE IF node.value_id = "subprocess"
              THEN << <<"Disallowed subprocess.", node.attr, " call">> >>
              ELSE <<>>
         ELSE <<>>
    ELSE IF node.type = "Call" /\ node.func_type = "Name"
                /\ node.func_id = "open"
    THEN IF node.nargs >= 2 /\ node.arg2_type = "Str"
              /\ \E i \in 1..Len(node.arg2_s) : node.arg2_s[i] \in {"w", "a", "+"}
         THEN << <<"Disallowed file write operation">> >>
         ELSE <<>>
    ELSE <<>>

\* CodeSandbox.validate_code: the list returned, or the exception that
\* leaves it
validate_code(source) ==
    LET tree == ast_parse(source)
    IN  IF tree.kind = "SyntaxError"
        THEN [raised |-> "none",
              violations |-> << <<"Syntax error: ", "<exception>">> >>]
        ELSE IF tree.kind # "tree"
        THEN [raised |-> tree.kind, violations |-> <<>>]
        ELSE [raised |-> "none",
              violations |-> Flatten([i \in 1..Len(tree.nodes) |->
                                          NodeViolations(tree.nodes[i])])]

(***************************************************************************)
(* Direct calls of validate_code                                           *)
(***************************************************************************)
ValidatorLines ==
    {Py_import_os, Py_import_os_path, Py_import_math, Py_from_os_import_system,
     Py_from_dot_import_x, Py_eval, Py_exec, Py_dunder_import,
     Py_open_w, Py_open_a, Py_open_r_plus, Py_open_r,
     Py_open_default, Py_os_system, Py_subprocess_run, Py_assign,
     Py_method_eval,
     Py_syntax_error, Py_surrogate}

\* the sources validate_code is called with: no line, one line, two lines
ValidatorSources ==
    {<<>>} \cup ValidatorLines
        \cup {a \o <<"\n">> \o b : a \in ValidatorLines, b \in ValidatorLines}

ValidatorInit ==
    /\ mode = "sync"
    /\ max_cycles = 1
    /\ start = 1
    /\ callMission \in Missions
    /\ callContext \in Contexts
    /\ Constructed
    /\ NotStarted
    /\ arg \in ValidatorSources
    /\ ret = NotCalled

\* CodeSandbox().validate_code(arg)
Call_validate_code ==
    /\ ret = NotCalled
    /\ ret' = [fn |-> "validate_code", value |-> validate_code(arg)]
    /\ UNCHANGED <<config, frame, pc, halt, raw, code, success, output,
                   error_message, files, requests, responses, results,
                   prunes, runs, installs, arg>>

ValidatorNext == Call_validate_code

ValidatorSpec == ValidatorInit /\ [][ValidatorNext]_vars

\* C25: in every cycle an artifact for which validate_code reports a
\* violation is never spawned as a process
StaticGate ==
    runs # <<>> =>
        /\ validate_code(code).raised = "none"
        /\ validate_code(code).violations = <<>>

\* positions in the walk of the calls of the built-in of the given name
CallsOf(nodes, name) ==
    {i \in 1..Len(nodes) :
        /\ nodes[i].type = "Call"
        /\ nodes[i].func_type = "Name"
        /\ nodes[i].func_id = name}

\* positions of the open(...) calls whose second positional argument is a
\* string literal with 'w', 'a' or '+'
WriteOpens(nodes) ==
    {i \in CallsOf(nodes, "open") :
        /\ nodes[i].nargs >= 2
        /\ nodes[i].arg2_type = "Str"
        /\ \E k \in 1..Len(nodes[i].arg2_s) : nodes[i].arg2_s[k] \in {"w", "a", "+"}}

\* positions of a message in the list returned
Reported(violations, message) ==
    {i \in 1..Len(violations) : violations[i] = message}

\* C26: for every source that parses, validate_code returns one violation
\* for each call of exec, of eval and of __import__, and one for each open
\* call whose second positional argument is a string literal containing
\* 'w', 'a' or '+'
DangerousCallsFlagged ==
    (ret.fn = "validate_code" /\ ast_parse(arg).kind = "tree") =>
        LET nodes == ast_parse(arg).nodes
            v == ret.value.violations
        IN  /\ ret.value.raised = "none"
            /\ Cardinality(Reported(v, <<"Disallowed function call: ", "exec">>))
                   = Cardinality(CallsOf(nodes, "exec"))
            /\ Cardinality(Reported(v, <<"Disallowed function call: ", "eval">>))
                   = Cardinality(CallsOf(nodes, "eval"))
            /\ Cardinality(Reported(v, <<"Disallowed __import__ call">>))
                   = Cardinality(CallsOf(nodes, "__import__"))
            /\ Cardinality(Reported(v, <<"Disallowed file write operation">>))
                   = Cardinality(WriteOpens(nodes))

\* C27: validate_code returns a list and does not raise, whatever the text;
\* for a source that does not parse the list is not empty
ValidatorNeverRaises ==
    ret.fn = "validate_code" =>
        /\ ret.value.raised = "none"
        /\ ast_parse(arg).kind # "tree" => ret.value.violations # <<>>

HasReviewMarker(text) ==
    \/ Contains(text, <<"d", "e", "f", " ">>)
    \/ Contains(text, <<"c", "l", "a", "s", "s", " ">>)
    \/ Contains(text, <<"p", "r", "i", "n", "t", "(">>)
    \/ Contains(text, <<"F", "a", "s", "t", "A", "P", "I">>)

\* C29: when the raw text the model returns in cycle 1 holds none of the
\* review markers, the run halts as pruned after one generation request and
\* module_1.py is deleted, however the execution ended (a run stopped by
\* the controller's failed write, and a delete that fails, set aside)
MarkerlessPruned ==
    ( /\ Halted
      /\ start = 1
      /\ cycle = 1
      /\ responses[1] = "ok"
      /\ ~ HasReviewMarker(raw)
      /\ halt # "persistence_failed" ) =>
        /\ halt = "pruned"
        /\ Len(requests) = 1
        /\ prunes[1].removed => ~ files[1].exists

\* the line starts with one of the code-like prefixes of allowed_starts (its
\* last entry, the empty string, is a prefix of every line and is not one),
\* or with a quote, or is purely numeric
LooksLikeCode(line) ==
    LET line_strip == Strip(line)
    IN  \/ \E k \in 1..Len(allowed_starts) :
              /\ allowed_starts[k] # <<>>
              /\ StartsWith(line_strip, allowed_starts[k])
        \/ (Len(line_strip) > 0 /\ line_strip[1] \in {"\"", "'"})
        \/ IsDigit(line_strip)

\* C30: for a raw text none of whose lines starts with a code-like prefix,
\* is quoted or is purely numeric, _clean_generated_code of GODCodeAgentOllama
\* returns exactly print('Hello world from GODCodeAgent')
ExtractorFallback ==
    ( /\ ret.fn = "_clean_generated_code"
      /\ mode = "sync"
      /\ \A i \in 1..Len(SplitLines[arg]) : ~ LooksLikeCode(SplitLines[arg][i]) ) =>
        ret.value =
            <<"p", "r", "i", "n", "t", "(", "'", "H", "e", "l", "l", "o", " ",
              "w", "o", "r", "l", "d", " ", "f", "r", "o", "m", " ", "G", "O",
              "D", "C", "o", "d", "e", "A", "g", "e", "n", "t", "'", ")">>

\* C31: extracting twice gives what extracting once gives
ExtractorIdempotent ==
    ret.fn = "_clean_generated_code" =>
        _clean_generated_code(mode, ret.value) = ret.value

\* C32: the result of _clean_generated_code has at least 10 characters, and
\* unless it is the fallback script none of its lines contains, in any
\* letter case, one of the banned phrases; the same text gives the same
\* result
ExtractorOutput ==
    ret.fn = "_clean_generated_code" =>
        /\ Len(ret.value) >= 10
        /\ ret.value # Fallback(mode) =>
               \A i \in 1..Len(SplitLines[ret.value]) :
                   \A k \in 1..Len(banned_phrases) :
                       ~ Contains(Lower(SplitLines[ret.value][i]),
                                  Lower(banned_phrases[k]))
        /\ ret.value = _clean_generated_code(mode, arg)

(***************************************************************************)
(* Direct calls of choose_model                                            *)
(***************************************************************************)
\* "write a csv parser"
MissionCsvParser ==
    <<"w", "r", "i", "t", "e", " ", "a", " ", "c", "s", "v", " ", "p", "a",
      "r", "s", "e", "r">>

\* "tell me a story"
MissionStory ==
    <<"t", "e", "l", "l", " ", "m", "e", " ", "a", " ", "s", "t", "o", "r",
      "y">>

\* "Build an API"
MissionApi ==
    <<"B", "u", "i", "l", "d", " ", "a", "n", " ", "A", "P", "I">>

\* "Write a Python script"
MissionScript ==
    <<"W", "r", "i", "t", "e", " ", "a", " ", "P", "y", "t", "h", "o", "n",
      " ", "s", "c", "r", "i", "p", "t">>

\* "Create a function"
MissionFunction ==
    <<"C", "r", "e", "a", "t", "e", " ", "a", " ", "f", "u", "n", "c", "t",
      "i", "o", "n">>

\* "Design a CLASS"
MissionClass ==
    <<"D", "e", "s", "i", "g", "n", " ", "a", " ", "C", "L", "A", "S", "S">>

\* "Process some Data"
MissionData ==
    <<"P", "r", "o", "c", "e", "s", "s", " ", "s", "o", "m", "e", " ", "D",
      "a", "t", "a">>

\* "Parse JSON"
MissionJson ==
    <<"P", "a", "r", "s", "e", " ", "J", "S", "O", "N">>

\* "an Algorithm"
MissionAlgorithm ==
    <<"a", "n", " ", "A", "l", "g", "o", "r", "i", "t", "h", "m">>

\* "a program"
MissionProgram ==
    <<"a", " ", "p", "r", "o", "g", "r", "a", "m">>

\* "Write code"
MissionCode ==
    <<"W", "r", "i", "t", "e", " ", "c", "o", "d", "e">>

\* "visit a therapist"
MissionTherapist ==
    <<"v", "i", "s", "i", "t", " ", "a", " ", "t", "h", "e", "r", "a", "p",
      "i", "s", "t">>

\* "What is the weather like today?"
MissionWeather ==
    <<"W", "h", "a", "t", " ", "i", "s", " ", "t", "h", "e", " ", "w", "e",
      "a", "t", "h", "e", "r", " ", "l", "i", "k", "e", " ", "t", "o", "d",
      "a", "y", "?">>

\* "Explain quantum physics"
MissionPhysics ==
    <<"E", "x", "p", "l", "a", "i", "n", " ", "q", "u", "a", "n", "t", "u",
      "m", " ", "p", "h", "y", "s", "i", "c", "s">>

\* ""
MissionEmpty == <<>>

RouterMissions ==
    {MissionCsvParser,
     MissionStory,
     MissionApi,
     MissionScript,
     MissionFunction,
     MissionClass,
     MissionData,
     MissionJson,
     MissionAlgorithm,
     MissionProgram,
     MissionCode,
     MissionTherapist,
     MissionWeather,
     MissionPhysics,
     MissionEmpty,
     NotAStr}

\* the models argument of the constructor: each key present or absent
GivenModels ==
    [code : {Missing, "codellama:instruct", "test-code-model"},
     general : {Missing, "llama2", "test-general-model"}]

RouterInit ==
    /\ mode = "sync"
    /\ max_cycles = 1
    /\ start = 1
    /\ callMission \in Missions
    /\ callContext \in Contexts
    /\ Constructed
    /\ NotStarted
    /\ arg \in [impl : RouterImpls, models : GivenModels, mission : RouterMissions]
    /\ ret = NotCalled

\* MultiModelAgent(models=arg.models).choose_model(arg.mission)
Call_choose_model ==
    /\ ret = NotCalled
    /\ ret' = [fn |-> "choose_model",
               value |-> choose_model(arg.impl, ConfiguredModels(arg.models),
                                      arg.mission)]
    /\ UNCHANGED <<config, frame, pc, halt, raw, code, success, output,
                   error_message, files, requests, responses, results, prunes,
                   runs, installs, arg>>

RouterNext == Call_choose_model

RouterSpec == RouterInit /\ [][RouterNext]_vars

\* the mapping the agent holds in a direct call
RouterModels == ConfiguredModels(arg.models)

RoutingNeverFails ==
    ret.fn = "choose_model" =>
        /\ ret.value.raised = "none"
        /\ (RouterModels.code = Missing \/ RouterModels.general = Missing)
               => ret.value.value = RouterModels.general

(***************************************************************************)
(* MultiModelAgent.run_mission                                             *)
(***************************************************************************)
\* the copy of MultiModelAgent that wraps the agent modelled here
Package == "apexai_core.agents.multi_model_agent"

\* mappings of the agents that run missions
MissionModels ==
    {default_models,
     [code |-> "test-code-model", general |-> "test-general-model"],
     [code |-> "test-code-model", general |-> Missing]}

\* what os.environ["OLLAMA_MODEL"] can hold: nothing, or the model a mission
\* run earlier in the process selected
EnvironValues(ms) == {Unset, ms.code, ms.general} \ {Missing}

\* run_mission(callMission, callContext) has been called on an agent that was
\* constructed, and may have run missions, earlier in the process
MissionInit ==
    /\ mode = "sync"
    /\ max_cycles \in 1..2
    /\ start = 1
    /\ callMission \in {MissionApi, MissionStory, MissionEmpty}
    /\ callContext \in Contexts
    /\ models \in MissionModels
    /\ \E env \in EnvironValues(models) : ollama_model = ConstructedModel(Unset, env)
    /\ environ \in EnvironValues(models)
    /\ threads = SingleThread
    /\ cycle = start
    /\ mission = callMission
    /\ context = callContext
    /\ pc = "Routing"
    /\ halt = "none"
    /\ raw = <<>>
    /\ code = <<>>
    /\ success = FALSE
    /\ output = <<>>
    /\ error_message = <<>>
    /\ files = [n \in FileIds |-> NoFile]
    /\ requests = <<>>
    /\ responses = <<>>
    /\ results = <<>>
    /\ prunes = <<>>
    /\ runs = <<>>
    /\ installs = <<>>
    /\ arg = <<>>
    /\ ret = NotCalled

\* run_mission up to its call of self.agent.recursive_build: the empty-mission
\* check, the selection, and the assignment to os.environ
run_mission ==
    /\ pc = "Routing"
    /\ IF callMission = <<>>
       THEN pc' = "Halted" /\ halt' = "value_error" /\ environ' = environ
       ELSE LET model == choose_model(Package, models, callMission)
            IN  IF model.raised # "none"
                THEN /\ pc' = "Halted"
                     /\ halt' = "model_selection_failed"
                     /\ environ' = environ
                ELSE /\ pc' = "Pending"
                     /\ halt' = halt
                     /\ environ' = model.value
    /\ UNCHANGED <<mode, max_cycles, start, callMission, callContext, models, threads,
                   ollama_model, call, frame, raw, code, success, output,
                   error_message, files, requests, responses, results, prunes,
                   runs, installs>>

MissionNext == run_mission \/ Next

MissionSpec == MissionInit /\ [][MissionNext]_vars

\* C35: every generation request of a run started by run_mission carries the
\* model id that choose_model returns for the mission of that call
RoutingTakesEffect ==
    \A i \in 1..Len(requests) :
        requests[i].model = choose_model(Package, models, callMission).value

(***************************************************************************)
(* InputValidator.validate_mission                                         *)
(***************************************************************************)
MaxMissionLength == 1000

\* characters \s matches
RegexSpace == {" ", "\n", "\t", "\r"}

Quotes == {"'", "\""}

\* the pattern text p matches at position i of s
MatchLit(s, i, p) ==
    /\ i + Len(p) - 1 <= Len(s)
    /\ \A k \in 1..Len(p) : s[i + k - 1] = p[k]

\* re.search of a, \s+, b
SearchSpaced(s, a, b) ==
    \E i \in 1..Len(s) :
        /\ MatchLit(s, i, a)
        /\ \E j \in (i + Len(a) + 1)..Len(s) :
            /\ \A k \in (i + Len(a))..(j - 1) : s[k] \in RegexSpace
            /\ MatchLit(s, j, b)

\* re.search of open\([^)]+,\s*['"]w['"]
SearchOpenWrite(s) ==
    \E i \in 1..Len(s) :
        /\ MatchLit(s, i, <<"o", "p", "e", "n", "(">>)
        /\ \E j \in (i + 6)..Len(s) :
            /\ \A k \in (i + 5)..(j - 1) : s[k] # ")"
            /\ s[j] = ","
            /\ \E q \in (j + 1)..Len(s) :
                /\ \A k \in (j + 1)..(q - 1) : s[k] \in RegexSpace
                /\ q + 2 <= Len(s)
                /\ s[q] \in Quotes
                /\ s[q + 1] = "w"
                /\ s[q + 2] \in Quotes

\* the patterns that are plain texts
dangerous_literals ==
    <<<<"s", "u", "d", "o">>,
      <<"e", "v", "a", "l", "(">>,
      <<"e", "x", "e", "c", "(">>,
      <<"o", "s", ".", "s", "y", "s", "t", "e", "m">>,
      <<"s", "u", "b", "p", "r", "o", "c", "e", "s", "s">>,
      <<"_", "_", "i", "m", "p", "o", "r", "t", "_", "_">>>>

\* one of dangerous_patterns is found, ignoring case
HasDangerousPattern(s) ==
    \/ SearchSpaced(s, <<"r", "m">>, <<"-", "r", "f">>)
    \/ SearchSpaced(s, <<"c", "h", "m", "o", "d">>, <<"7", "7", "7">>)
    \/ \E k \in 1..Len(dangerous_literals) : Contains(s, dangerous_literals[k])
    \/ SearchOpenWrite(s)

\* a validator that only checks the length
validate_mission_length_only(text) == Len(text) <= MaxMissionLength

\* first component of InputValidator.validate_mission(mission)
validate_mission(text) ==
    /\ Len(text) <= MaxMissionLength
    /\ ~ HasDangerousPattern(Lower(text))

(***************************************************************************)
(* Command line: the run command                                           *)
(***************************************************************************)
\* "Test mission"
MissionTest ==
    <<"T", "e", "s", "t", " ", "m", "i", "s", "s", "i", "o", "n">>

\* "run SUDO apt install"
MissionSudo ==
    <<"r", "u", "n", " ", "S", "U", "D", "O", " ", "a", "p", "t", " ", "i",
      "n", "s", "t", "a", "l", "l">>

\* "rm  -rf /tmp/x"
MissionRm ==
    <<"r", "m", " ", " ", "-", "r", "f", " ", "/", "t", "m", "p", "/", "x">>

\* "use open('f', 'w')"
MissionOpenWrite ==
    <<"u", "s", "e", " ", "o", "p", "e", "n", "(", "'", "f", "'", ",", " ",
      "'", "w", "'", ")">>

\* "use open('f', 'r')"
MissionOpenRead ==
    <<"u", "s", "e", " ", "o", "p", "e", "n", "(", "'", "f", "'", ",", " ",
      "'", "r", "'", ")">>

\* a mission of 1001 characters
MissionLong == [i \in 1..(MaxMissionLength + 1) |-> "a"]

CliMissions ==
    {MissionTest, MissionApi, MissionStory, MissionOpenRead, MissionEmpty,
     MissionSudo, MissionRm, MissionOpenWrite, MissionLong}

\* parsed arguments of `run`: the mission, --model-type, --async and
\* --ollama-model
CliArgs ==
    [mission : CliMissions,
     model_type : {"auto", "code", "general"},
     use_async : BOOLEAN,
     ollama_model : {"codellama:instruct", "llama2"}]

\* main(args) has been called with the run command
CliInit ==
    /\ arg \in CliArgs
    /\ mode = IF arg.use_async THEN "async" ELSE "sync"
    /\ max_cycles \in 0..1
    /\ start = 1
    /\ callMission = arg.mission
    /\ callContext = <<>>
    /\ Constructed
    /\ cycle = start
    /\ mission = callMission
    /\ context = callContext
    /\ pc = "Cli"
    /\ halt = "none"
    /\ raw = <<>>
    /\ code = <<>>
    /\ success = FALSE
    /\ output = <<>>
    /\ error_message = <<>>
    /\ files = [n \in FileIds |-> NoFile]
    /\ requests = <<>>
    /\ responses = <<>>
    /\ results = <<>>
    /\ prunes = <<>>
    /\ runs = <<>>
    /\ installs = <<>>
    /\ ret = NotCalled

\* a command that starts the run whatever the validator says
main_not_validating ==
    /\ pc = "Cli"
    /\ pc' = "Pending"
    /\ ollama_model' = arg.ollama_model
    /\ UNCHANGED <<mode, max_cycles, start, callMission, callContext, models, threads,
                   environ, call, frame, halt, raw, code, success, output,
                   error_message, files, requests, responses, results, prunes,
                   runs, installs>>

\* main_sync / async_main for the run command, up to the call of the agent:
\* the mission is validated, then the agent is constructed
main ==
    /\ pc = "Cli"
    /\ IF ~ validate_mission(arg.mission)
       THEN /\ pc' = "Halted"
            /\ halt' = "invalid_mission"
            /\ ret' = [fn |-> "main", value |-> 1]
            /\ UNCHANGED <<ollama_model, environ>>
       ELSE /\ halt' = halt
            /\ ret' = ret
            /\ IF arg.use_async
               THEN /\ ollama_model' = ConstructedModel(arg.ollama_model, environ)
                    /\ environ' = environ
                    /\ pc' = "Pending"
               ELSE IF arg.model_type # "auto"
               THEN /\ environ' = IF arg.model_type = "code"
                                  THEN "codellama:instruct" ELSE "llama2"
                    /\ ollama_model' = ConstructedModel(environ', environ')
                    /\ pc' = "Pending"
               ELSE /\ ollama_model' = ConstructedModel(Unset, environ)
                    /\ environ' = environ
                    /\ pc' = "Routing"
    /\ UNCHANGED <<mode, max_cycles, start, callMission, callContext, models, threads,
                   arg, frame, raw, code, success, output, error_message,
                   files, requests, responses, results, prunes, runs,
                   installs>>

\* halts in which the agent's call raised to the command
Escaped == {"unhandled_fault", "value_error", "model_selection_failed"}

\* the agent's call has returned (return 0) or raised (except Exception:
\* return 1)
main_return ==
    /\ pc = "Halted"
    /\ ret = NotCalled
    /\ ret' = [fn |-> "main", value |-> IF halt \in Escaped THEN 1 ELSE 0]
    /\ UNCHANGED <<config, frame, pc, halt, raw, code, success, output,
                   error_message, files, requests, responses, results, prunes,
                   runs, installs, arg>>

CliNext == main \/ run_mission \/ Next \/ main_return

CliSpec == CliInit /\ [][CliNext]_vars

\* halts in which recursive_build returned to its caller
Terminated ==
    {"max_cycles_reached", "generation_failed", "persistence_failed", "pruned",
     "completed_final_cycle"}

\* C36 (as claimed): the run command returns 0 for every run that terminates
\* and a non-zero code only when an unhandled internal error occurred
CliExitCodeAsClaimed ==
    ret.fn = "main" =>
        /\ halt \in Terminated => ret.value = 0
        /\ ret.value # 0 => halt = "unhandled_fault"

\* C36 (amended): the run command returns 0 exactly when the agent's call
\* returned, and 1 when the mission was rejected by validate_mission before
\* any agent was constructed or when the agent's call raised, which includes
\* the ValueError of run_mission for an empty mission
CliExitCode ==
    ret.fn = "main" =>
        /\ pc = "Halted"
        /\ ret.value = 0 <=> halt \in Terminated
        /\ ret.value = 1 <=>
               \/ halt = "invalid_mission"
               \/ halt = "unhandled_fault"
               \/ halt = "value_error"
        /\ halt = "invalid_mission" <=> ~ validate_mission(arg.mission)
        /\ halt = "invalid_mission" => requests = <<>>
        /\ halt = "value_error" <=>
               (arg.mission = <<>> /\ arg.model_type = "auto" /\ ~ arg.use_async)

CliExitCodeWitness ==
    /\ ret = [fn |-> "main", value |-> 0]
    /\ halt = "pruned"
    /\ arg.model_type = "auto"
    /\ arg.mission = MissionOpenRead

\* C37: when the first execution of write_and_execute fails with a text from
\* which the resolver's pattern extracts a name, the failure is classified as
\* a missing dependency and the resolver is called on it
SignatureConsistency ==
    [][ (pc = "Running" /\ pc' # pc /\ FindModules(error_message') # <<>>) =>
            pc' = "Installing"
      ]_vars

(***************************************************************************)
(* Spawned processes after the wait                                        *)
(***************************************************************************)
\* the process spawned for a run is still running when the executor returns.
\* A process that exited is not; one that was running when the wait expired
\* has been killed and reaped by subprocess.run in the sync agent, while the
\* async agent's asyncio.wait_for only cancels the wait
StillRunning(m, run) == run.outcome.kind = "timeout" /\ m = "async"

\* C38: when the executor has returned, no script-mode process it spawned is
\* still running, in the sync and in the async agent
NoOrphanAfterTimeout ==
    \A i \in 1..Len(runs) :
        ~ runs[i].service => ~ StillRunning(mode, runs[i])

\* C39: whenever service mode returns (True, 'server running'), the server
\* process it spawned is still running when the call returns, in the sync and
\* in the async agent
ServiceAliveOnSuccess ==
    \A i \in 1..Len(runs) :
        (runs[i].service /\ runs[i].outcome.kind = "timeout") =>
            /\ _execute_with_uvicorn(mode, runs[i].outcome)
                   = Returned(TRUE, <<UvicornRunning>>)
            /\ StillRunning(mode, runs[i])

(***************************************************************************)
(* GUI: 'Run Mission' starts a thread per click                            *)
(***************************************************************************)
\* the locals of the scheduled thread's call of run_mission
Locals ==
    [cycle |-> cycle, mission |-> mission, context |-> context, pc |-> pc,
     halt |-> halt, raw |-> raw, code |-> code, success |-> success,
     output |-> output, error_message |-> error_message,
     requests |-> requests, responses |-> responses, results |-> results,
     prunes |-> prunes, runs |-> runs, installs |-> installs]

\* the locals of a thread that run_action has just started
Started ==
    [NoThread EXCEPT !.cycle = start, !.mission = callMission,
                     !.context = callContext, !.pc = "Routing"]

\* launch_gui on an agent constructed by the gui command; mission_var holds
\* callMission, and no mission has been run
GuiInit ==
    /\ mode = "sync"
    /\ max_cycles = 1
    /\ start = 1
    /\ callMission = MissionApi
    /\ callContext = <<>>
    /\ Constructed
    /\ cycle = start
    /\ mission = callMission
    /\ context = callContext
    /\ pc = "Idle"
    /\ halt = "none"
    /\ raw = <<>>
    /\ code = <<>>
    /\ success = FALSE
    /\ output = <<>>
    /\ error_message = <<>>
    /\ files = [n \in FileIds |-> NoFile]
    /\ requests = <<>>
    /\ responses = <<>>
    /\ results = <<>>
    /\ prunes = <<>>
    /\ runs = <<>>
    /\ installs = <<>>
    /\ arg = <<>>
    /\ ret = NotCalled

\* run_action: a click on 'Run Mission' with a non-empty mission starts a
\* daemon thread that calls run_mission, whatever other threads are doing
run_action ==
    /\ callMission # <<>>
    /\ IF pc = "Idle"
       THEN /\ pc' = "Routing"
            /\ threads' = threads
       ELSE /\ threads.saved.pc = "NotSpawned"
            /\ threads' = [threads EXCEPT !.saved = Started]
            /\ pc' = pc
    /\ UNCHANGED <<mode, max_cycles, start, callMission, callContext, models,
                   ollama_model, environ, call, cycle, mission, context, halt,
                   raw, code, success, output, error_message, files, requests,
                   responses, results, prunes, runs, installs>>

\* positions at which a thread is about to wait for the model service, for a
\* child process or for pip, and so gives up the interpreter for seconds
Blocking == {"Generating", "Running", "Installing", "Retrying"}

\* a thread whose call of run_mission is over: its locals are gone
Ended == [NoThread EXCEPT !.pc = "Ended"]

\* the interpreter schedules the other mission thread, when the scheduled one
\* waits or has ended
Switch ==
    /\ pc \in Blocking \cup {"Halted"}
    /\ threads.saved.pc \notin {"NotSpawned", "Ended"}
    /\ threads' = [running |-> 3 - threads.running,
                   saved |-> IF pc = "Halted" THEN Ended ELSE Locals]
    /\ cycle' = threads.saved.cycle
    /\ mission' = threads.saved.mission
    /\ context' = threads.saved.context
    /\ pc' = threads.saved.pc
    /\ halt' = threads.saved.halt
    /\ raw' = threads.saved.raw
    /\ code' = threads.saved.code
    /\ success' = threads.saved.success
    /\ output' = threads.saved.output
    /\ error_message' = threads.saved.error_message
    /\ requests' = threads.saved.requests
    /\ responses' = threads.saved.responses
    /\ results' = threads.saved.results
    /\ prunes' = threads.saved.prunes
    /\ runs' = threads.saved.runs
    /\ installs' = threads.saved.installs
    /\ UNCHANGED <<mode, max_cycles, start, callMission, callContext, models,
                   ollama_model, environ, call, files>>

GuiNext == run_action \/ Switch \/ run_mission \/ Next

GuiSpec == GuiInit /\ [][GuiNext]_vars

\* positions at which a run writes, executes or prunes module files
Working ==
    {"Persisting", "Writing", "Running", "Installing", "Retrying", "Reviewing",
     "Pruning"}

\* C40: at most one run at a time writes, executes or prunes module files
\* under the project root, and a run that is about to execute its artifact
\* finds on disk the code it wrote
SingleRunPerRoot ==
    /\ ~ (pc \in Working /\ threads.saved.pc \in Working)
    /\ pc \in {"Running", "Retrying"} =>
           files[cycle] = [exists |-> TRUE, content |-> code]

====
